---- MODULE Spec2Model ----
(***************************************************************************)
(* Model of the Open Tab Agent command-to-action pipeline:                 *)
(*   - the content script (getSelector, extractPageContext, executeAction, *)
(*     executeActions and its message listener),                           *)
(*   - the background relay (onMessage, ensureContentScriptLoaded),        *)
(*   - the side panel orchestrator (handleSendCommand and its helpers),    *)
(*   - the reply decoding of the AI clients (extractActions).              *)
(***************************************************************************)
EXTENDS Integers, Sequences, FiniteSets, TLC

\* ------------------------------------------------------------------------
\* Bounds
\* ------------------------------------------------------------------------
\* number of user commands that are ever submitted
MaxCmds == 2
\* longest action list handed to the executor in SpecExec
MaxActions == 2

\* longest action list in a reply of the AI backend in SpecPlan
MaxPlan == 2

\* longest page of SpecObserve whose elements are chosen freely
MaxPage == 3
\* a long page of SpecObserve has up to MaxElements + MaxExtra elements
MaxExtra == 2

Cmds == 1..MaxCmds

\* ------------------------------------------------------------------------
\* Values
\* ------------------------------------------------------------------------
\* JavaScript's undefined for an absent string field
Undefined == "undefined"
\* an absent selector; document.querySelector(undefined) looks for the
\* type selector 'undefined'
NoSelector == <<"tag", "undefined">>

\* The delays of the executor, in milliseconds
WaitMs == 1000
DelayMs == 500
\* slice(0, 100) of extractPageContext
MaxElements == 100
\* substring(0, 100) of extractPageContext
MaxText == 100

SeqMin(S) == CHOOSE x \in S : \A y \in S : x <= y

\* ------------------------------------------------------------------------
\* The page: a sequence of elements in document order.  parent is the index
\* of the parent element (0: the element has no parent element in the
\* modelled part of the tree and is a child of the body).
\* ------------------------------------------------------------------------
El(tag, type, id, html, removes) ==
  [tag |-> tag, type |-> type, id |-> id, name |-> "", classes |-> {},
   placeholder |-> "", parent |-> 0, html |-> html, clickable |-> FALSE,
   display |-> "block", visibility |-> "visible", opacity |-> "1",
   present |-> TRUE, value |-> "", checked |-> FALSE, disabled |-> FALSE,
   text |-> 0, removes |-> removes]

\* The page of the scenarios: a checkbox, a button whose click handler
\* removes the text input that follows it, a select, an svg element and a
\* disabled checkbox.
DemoPage ==
  << El("input", "checkbox", "terms", TRUE, {}),
     El("button", "submit", "a", TRUE, {3}),
     El("input", "text", "b", TRUE, {}),
     El("select", "", "d", TRUE, {}),
     El("svg", "", "s", FALSE, {}),
     [El("input", "checkbox", "off", TRUE, {}) EXCEPT !.disabled = TRUE] >>

\* The page of the second tab: a checkbox with the id of the first one's
OtherPage == << El("input", "checkbox", "terms", TRUE, {}) >>

\* ------------------------------------------------------------------------
\* Selectors.  A selector string is modelled by its parts:
\*   <<"#", id>>                    #id
\*   <<"name", n>>                  [name="n"]
\*   <<"class", tag, classes>>      tag.c1.c2
\*   <<"ph", tag, p>>               tag[placeholder="p"]
\*   <<"nth", tag, n>>              tag:nth-of-type(n)
\*   <<"tag", tag>>                 tag
\*   <<"invalid">>                  a string that is no valid selector
\* ------------------------------------------------------------------------
IsValidSelector(sel) == sel[1] # "invalid"

\* same-tag present children of the parent of element i, in document order
SameTagSiblings(d, i) ==
  { j \in 1..Len(d) : d[j].present /\ d[j].parent = d[i].parent
                      /\ d[j].tag = d[i].tag }

\* 1-based ordinal of element i among its same-tag siblings
OrdinalOfType(d, i) == Cardinality({ j \in SameTagSiblings(d, i) : j <= i })

Matches(d, i, sel) ==
  CASE sel[1] = "#"     -> d[i].id # "" /\ d[i].id = sel[2]
    [] sel[1] = "name"  -> d[i].name # "" /\ d[i].name = sel[2]
    [] sel[1] = "class" -> d[i].tag = sel[2] /\ sel[3] \subseteq d[i].classes
    [] sel[1] = "ph"    -> d[i].tag = sel[2] /\ d[i].placeholder # ""
                           /\ d[i].placeholder = sel[3]
    [] sel[1] = "nth"   -> d[i].tag = sel[2] /\ OrdinalOfType(d, i) = sel[3]
    [] sel[1] = "tag"   -> d[i].tag = sel[2]
    [] OTHER            -> FALSE

\* document.querySelectorAll(selector): the matching elements of the page
querySelectorAll(d, sel) ==
  { i \in 1..Len(d) : d[i].present /\ Matches(d, i, sel) }

\* document.querySelector(selector): the first match in document order,
\* 0 for null
querySelector(d, sel) ==
  IF querySelectorAll(d, sel) = {} THEN 0 ELSE SeqMin(querySelectorAll(d, sel))

\* index of element i in Array.from(parentElement?.children).filter(same
\* tag): -1 when the element has no parent element
SiblingIndex(d, i) ==
  IF d[i].parent = 0 /\ d[i].tag = "html" THEN -1
  ELSE OrdinalOfType(d, i) - 1

\* getSelector that returns the class selector without counting its matches
getSelectorAnyClass(d, i) ==
  LET el == d[i]
      classSel == <<"class", el.tag, el.classes>>
      phSel == <<"ph", el.tag, el.placeholder>>
  IN  IF el.id # "" THEN <<"#", el.id>>
      ELSE IF el.name # "" THEN <<"name", el.name>>
      ELSE IF el.html /\ el.classes # {} THEN classSel
      ELSE IF el.placeholder # ""
              /\ Cardinality(querySelectorAll(d, phSel)) = 1 THEN phSel
      ELSE <<"nth", el.tag, SiblingIndex(d, i) + 1>>

\* getSelector that tries the name attribute before the id
getSelectorNameFirst(d, i) ==
  LET el == d[i]
      classSel == <<"class", el.tag, el.classes>>
      phSel == <<"ph", el.tag, el.placeholder>>
  IN  IF el.name # "" THEN <<"name", el.name>>
      ELSE IF el.id # "" THEN <<"#", el.id>>
      ELSE IF el.html /\ el.classes # {}
              /\ Cardinality(querySelectorAll(d, classSel)) = 1 THEN classSel
      ELSE IF el.placeholder # ""
              /\ Cardinality(querySelectorAll(d, phSel)) = 1 THEN phSel
      ELSE <<"nth", el.tag, SiblingIndex(d, i) + 1>>

getSelector(d, i) ==
  LET el == d[i]
      classSel == <<"class", el.tag, el.classes>>
      phSel == <<"ph", el.tag, el.placeholder>>
  IN  IF el.id # "" THEN <<"#", el.id>>
      ELSE IF el.name # "" THEN <<"name", el.name>>
      ELSE IF el.html /\ el.classes # {}
              /\ Cardinality(querySelectorAll(d, classSel)) = 1 THEN classSel
      ELSE IF el.placeholder # ""
              /\ Cardinality(querySelectorAll(d, phSel)) = 1 THEN phSel
      ELSE <<"nth", el.tag, SiblingIndex(d, i) + 1>>

\* ------------------------------------------------------------------------
\* extractPageContext
\* ------------------------------------------------------------------------
RECURSIVE SeqOfSet(_)
\* the members of a set of indices as a sequence in increasing order
SeqOfSet(S) ==
  IF S = {} THEN <<>>
  ELSE LET m == SeqMin(S) IN <<m>> \o SeqOfSet(S \ {m})

\* the interactiveSelectors list; clickable stands for a[href],
\* [role="button"], [onclick] and [contenteditable="true"]
IsInteractive(el) ==
  \/ el.tag = "input" /\ el.type # "hidden"
  \/ el.tag \in {"textarea", "button", "select"}
  \/ el.clickable

\* the elements the forEach callback does not skip
IsVisible(el) ==
  ~(el.display = "none" \/ el.visibility = "hidden" \/ el.opacity = "0")

OrUndefined(s) == IF s = "" THEN Undefined ELSE s

BoolStr(b) == IF b THEN "true" ELSE "false"

\* the DOMElement built for element i
Descriptor(d, i) ==
  LET el == d[i]
      control == el.tag \in {"input", "textarea", "button", "select"}
  IN  [selector |-> getSelector(d, i),
       tag |-> el.tag,
       id |-> OrUndefined(el.id),
       className |-> el.classes,
       text |-> IF el.text > MaxText THEN MaxText ELSE el.text,
       type |-> IF el.tag = "input" THEN el.type ELSE Undefined,
       name |-> IF control THEN OrUndefined(el.name) ELSE Undefined,
       placeholder |-> IF el.tag \in {"input", "textarea"}
                       THEN OrUndefined(el.placeholder) ELSE Undefined,
       value |-> IF el.tag \in {"input", "textarea"}
                 THEN OrUndefined(el.value) ELSE Undefined,
       checked |-> IF el.tag = "input" THEN BoolStr(el.checked) ELSE Undefined,
       disabled |-> IF control THEN BoolStr(el.disabled) ELSE Undefined]

\* FoundElements without the test of the computed style
FoundElementsAll(d) ==
  SeqOfSet({ i \in 1..Len(d) : d[i].present /\ IsInteractive(d[i]) /\ d[i].html })

\* the indices of the elements pushed by the forEach, in discovery order
FoundElements(d) ==
  SeqOfSet({ i \in 1..Len(d) : d[i].present /\ IsInteractive(d[i])
                               /\ d[i].html /\ IsVisible(d[i]) })

\* extractPageContext without the slice
extractPageContextNoSlice(d) ==
  LET found == FoundElements(d)
  IN  [elements |-> [k \in 1..Len(found) |-> Descriptor(d, found[k])],
       screenshot |-> Undefined]

extractPageContext(d) ==
  LET found == FoundElements(d)
      n == IF Len(found) > MaxElements THEN MaxElements ELSE Len(found)
  IN  [elements |-> [k \in 1..n |-> Descriptor(d, found[k])],
       screenshot |-> Undefined]

\* ------------------------------------------------------------------------
\* executeAction
\* ------------------------------------------------------------------------
Ok(a) == [success |-> TRUE, action |-> a, error |-> <<>>]
Fail(a, err) == [success |-> FALSE, action |-> a, error |-> err]

RECURSIVE IsUnder(_, _, _)
\* element j is one of R or a descendant of one of R
IsUnder(d, j, R) ==
  IF j = 0 THEN FALSE
  ELSE IF j \in R THEN TRUE
  ELSE IsUnder(d, d[j].parent, R)

\* element.click(): a disabled form control ignores it; otherwise a checkbox
\* toggles and the page's click handler runs (it removes d[i].removes)
Click(d, i) ==
  IF d[i].disabled THEN d
  ELSE [j \in 1..Len(d) |->
          IF IsUnder(d, j, d[i].removes) THEN [d[j] EXCEPT !.present = FALSE]
          ELSE IF j = i /\ d[i].tag = "input" /\ d[i].type = "checkbox"
               THEN [d[j] EXCEPT !.checked = ~d[i].checked]
          ELSE d[j]]

\* FillValue without the default for an absent value
FillValueNoDefault(a) == a.value

\* action.value || ''
FillValue(a) == IF a.value = Undefined THEN "" ELSE a.value

\* element instanceof HTMLInputElement || element instanceof
\* HTMLTextAreaElement
IsInputOrTextArea(el) == el.tag \in {"input", "textarea"}

\* executeAction without the check of the element for null: the call on
\* null throws and the catch block reports the TypeError
executeActionNoNullCheck(d, ev, a) ==
  IF ~IsValidSelector(a.selector)
  THEN [result |-> Fail(a, <<"SyntaxError", a.selector>>), dom |-> d, events |-> ev]
  ELSE
  LET i == querySelector(d, a.selector) IN
  IF i = 0
  THEN [result |-> Fail(a, <<"TypeError">>), dom |-> d, events |-> ev]
  ELSE IF ~d[i].html
  THEN [result |-> Fail(a, <<"Element is not an HTMLElement", a.selector>>),
        dom |-> d, events |-> ev]
  ELSE IF a.type = "click"
  THEN [result |-> Ok(a), dom |-> Click(d, i),
        events |-> IF d[i].disabled THEN ev ELSE Append(ev, <<i, "click">>)]
  ELSE IF a.type = "fill"
  THEN IF IsInputOrTextArea(d[i])
       THEN [result |-> Ok(a),
             dom |-> [d EXCEPT ![i].value = FillValue(a)],
             events |-> ev \o << <<i, "input">>, <<i, "change">> >>]
       ELSE [result |-> Fail(a, <<"Element is not an input or textarea", a.selector>>),
             dom |-> d, events |-> ev]
  ELSE [result |-> Fail(a, <<"Unknown action type", a.type>>),
        dom |-> d, events |-> ev]

\* executeAction that writes the value of a fill before it tests the kind
\* of the element
executeActionFillsFirst(d, ev, a) ==
  IF ~IsValidSelector(a.selector)
  THEN [result |-> Fail(a, <<"SyntaxError", a.selector>>), dom |-> d, events |-> ev]
  ELSE
  LET i == querySelector(d, a.selector) IN
  IF i = 0
  THEN [result |-> Fail(a, <<"Element not found", a.selector>>),
        dom |-> d, events |-> ev]
  ELSE IF ~d[i].html
  THEN [result |-> Fail(a, <<"Element is not an HTMLElement", a.selector>>),
        dom |-> d, events |-> ev]
  ELSE IF a.type = "click"
  THEN [result |-> Ok(a), dom |-> Click(d, i),
        events |-> IF d[i].disabled THEN ev ELSE Append(ev, <<i, "click">>)]
  ELSE IF a.type = "fill"
  THEN IF IsInputOrTextArea(d[i])
       THEN [result |-> Ok(a),
             dom |-> [d EXCEPT ![i].value = FillValue(a)],
             events |-> ev \o << <<i, "input">>, <<i, "change">> >>]
       ELSE [result |-> Fail(a, <<"Element is not an input or textarea", a.selector>>),
             dom |-> [d EXCEPT ![i].value = FillValue(a)], events |-> ev]
  ELSE [result |-> Fail(a, <<"Unknown action type", a.type>>),
        dom |-> d, events |-> ev]

\* executeAction that refuses to click a disabled element
executeActionChecksDisabled(d, ev, a) ==
  IF ~IsValidSelector(a.selector)
  THEN [result |-> Fail(a, <<"SyntaxError", a.selector>>), dom |-> d, events |-> ev]
  ELSE
  LET i == querySelector(d, a.selector) IN
  IF i = 0
  THEN [result |-> Fail(a, <<"Element not found", a.selector>>),
        dom |-> d, events |-> ev]
  ELSE IF ~d[i].html
  THEN [result |-> Fail(a, <<"Element is not an HTMLElement", a.selector>>),
        dom |-> d, events |-> ev]
  ELSE IF a.type = "click"
  THEN IF d[i].disabled
       THEN [result |-> Fail(a, <<"Element is disabled", a.selector>>),
             dom |-> d, events |-> ev]
       ELSE [result |-> Ok(a), dom |-> Click(d, i),
             events |-> Append(ev, <<i, "click">>)]
  ELSE IF a.type = "fill"
  THEN IF IsInputOrTextArea(d[i])
       THEN [result |-> Ok(a),
             dom |-> [d EXCEPT ![i].value = FillValue(a)],
             events |-> ev \o << <<i, "input">>, <<i, "change">> >>]
       ELSE [result |-> Fail(a, <<"Element is not an input or textarea", a.selector>>),
             dom |-> d, events |-> ev]
  ELSE [result |-> Fail(a, <<"Unknown action type", a.type>>),
        dom |-> d, events |-> ev]

\* executeAction for an action that is not a wait: the result, the page and
\* the events dispatched on the page
executeAction(d, ev, a) ==
  IF ~IsValidSelector(a.selector)
  THEN [result |-> Fail(a, <<"SyntaxError", a.selector>>), dom |-> d, events |-> ev]
  ELSE
  LET i == querySelector(d, a.selector) IN
  IF i = 0
  THEN [result |-> Fail(a, <<"Element not found", a.selector>>),
        dom |-> d, events |-> ev]
  ELSE IF ~d[i].html
  THEN [result |-> Fail(a, <<"Element is not an HTMLElement", a.selector>>),
        dom |-> d, events |-> ev]
  ELSE IF a.type = "click"
  THEN [result |-> Ok(a), dom |-> Click(d, i),
        events |-> IF d[i].disabled THEN ev ELSE Append(ev, <<i, "click">>)]
  ELSE IF a.type = "fill"
  THEN IF IsInputOrTextArea(d[i])
       THEN [result |-> Ok(a),
             dom |-> [d EXCEPT ![i].value = FillValue(a)],
             events |-> ev \o << <<i, "input">>, <<i, "change">> >>]
       ELSE [result |-> Fail(a, <<"Element is not an input or textarea", a.selector>>),
             dom |-> d, events |-> ev]
  ELSE [result |-> Fail(a, <<"Unknown action type", a.type>>),
        dom |-> d, events |-> ev]

\* ------------------------------------------------------------------------
\* executeActions
\* ------------------------------------------------------------------------
\* Iterate for an executeAction that resolves the selector before the test
\* for a wait action
IterateWaitResolves(e, d, i) ==
  IF i > Len(e.actions)
  THEN [exec |-> [e EXCEPT !.pc = "done", !.i = i], dom |-> d]
  ELSE
  LET a == e.actions[i]
      e1 == [e EXCEPT !.i = i, !.attempts = Append(@, i)]
      found == IsValidSelector(a.selector) /\ querySelector(d, a.selector) # 0
  IN  IF a.type = "wait" /\ found
      THEN [exec |-> [e1 EXCEPT !.pc = "waiting", !.sleeps = Append(@, WaitMs)],
            dom |-> d]
      ELSE LET r == executeAction(d, e.events, a)
               e2 == [e1 EXCEPT !.results = Append(@, r.result),
                                !.events = r.events]
           IN  IF ~r.result.success
               THEN [exec |-> [e2 EXCEPT !.pc = "done"], dom |-> r.dom]
               ELSE [exec |-> [e2 EXCEPT !.pc = "delay",
                                         !.sleeps = Append(@, DelayMs)],
                     dom |-> r.dom]

\* Iterate that applies every action to the page as it was when the batch
\* started
IterateStalePage(e, d, i) ==
  IF i > Len(e.actions)
  THEN [exec |-> [e EXCEPT !.pc = "done", !.i = i], dom |-> d]
  ELSE
  LET a == e.actions[i]
      e1 == [e EXCEPT !.i = i, !.attempts = Append(@, i)]
  IN  IF a.type = "wait"
      THEN [exec |-> [e1 EXCEPT !.pc = "waiting", !.sleeps = Append(@, WaitMs)],
            dom |-> d]
      ELSE LET r == executeAction(DemoPage, e.events, a)
               e2 == [e1 EXCEPT !.results = Append(@, r.result),
                                !.events = r.events]
           IN  IF ~r.result.success
               THEN [exec |-> [e2 EXCEPT !.pc = "done"], dom |-> r.dom]
               ELSE [exec |-> [e2 EXCEPT !.pc = "delay",
                                         !.sleeps = Append(@, DelayMs)],
                     dom |-> r.dom]

\* Iterate without the break after a failed action
IterateNoBreak(e, d, i) ==
  IF i > Len(e.actions)
  THEN [exec |-> [e EXCEPT !.pc = "done", !.i = i], dom |-> d]
  ELSE
  LET a == e.actions[i]
      e1 == [e EXCEPT !.i = i, !.attempts = Append(@, i)]
  IN  IF a.type = "wait"
      THEN [exec |-> [e1 EXCEPT !.pc = "waiting", !.sleeps = Append(@, WaitMs)],
            dom |-> d]
      ELSE LET r == executeAction(d, e.events, a)
               e2 == [e1 EXCEPT !.results = Append(@, r.result),
                                !.events = r.events]
           IN  [exec |-> [e2 EXCEPT !.pc = "delay",
                                    !.sleeps = Append(@, DelayMs)],
                dom |-> r.dom]

\* Iterate with the break before the push of the failed result
IterateDropFailure(e, d, i) ==
  IF i > Len(e.actions)
  THEN [exec |-> [e EXCEPT !.pc = "done", !.i = i], dom |-> d]
  ELSE
  LET a == e.actions[i]
      e1 == [e EXCEPT !.i = i, !.attempts = Append(@, i)]
  IN  IF a.type = "wait"
      THEN [exec |-> [e1 EXCEPT !.pc = "waiting", !.sleeps = Append(@, WaitMs)],
            dom |-> d]
      ELSE LET r == executeAction(d, e.events, a)
               e2 == [e1 EXCEPT !.results = Append(@, r.result),
                                !.events = r.events]
           IN  IF ~r.result.success
               THEN [exec |-> [e1 EXCEPT !.pc = "done", !.events = r.events],
                     dom |-> r.dom]
               ELSE [exec |-> [e2 EXCEPT !.pc = "delay",
                                         !.sleeps = Append(@, DelayMs)],
                     dom |-> r.dom]

\* Iterate with results.unshift(result) in place of results.push(result)
IterateUnshift(e, d, i) ==
  IF i > Len(e.actions)
  THEN [exec |-> [e EXCEPT !.pc = "done", !.i = i], dom |-> d]
  ELSE
  LET a == e.actions[i]
      e1 == [e EXCEPT !.i = i, !.attempts = Append(@, i)]
  IN  IF a.type = "wait"
      THEN [exec |-> [e1 EXCEPT !.pc = "waiting", !.sleeps = Append(@, WaitMs)],
            dom |-> d]
      ELSE LET r == executeAction(d, e.events, a)
               e2 == [e1 EXCEPT !.results = <<r.result>> \o @,
                                !.events = r.events]
           IN  IF ~r.result.success
               THEN [exec |-> [e2 EXCEPT !.pc = "done"], dom |-> r.dom]
               ELSE [exec |-> [e2 EXCEPT !.pc = "delay",
                                         !.sleeps = Append(@, DelayMs)],
                     dom |-> r.dom]

\* executeActions: the for loop from iteration i on, up to its next
\* suspension.  e is the state of one invocation:
\*   pc        "waiting": in the timeout of a wait action; "delay": in the
\*             timeout between two actions; "done": returned
\*   i         the index of the action of the current iteration
\*   results   the results array
\*   attempts  the indices executeAction was called with, in call order
\*   sleeps    the timeouts set so far, in milliseconds
\*   events    the events it has dispatched on the page, in order
Iterate(e, d, i) ==
  IF i > Len(e.actions)
  THEN [exec |-> [e EXCEPT !.pc = "done", !.i = i], dom |-> d]
  ELSE
  LET a == e.actions[i]
      e1 == [e EXCEPT !.i = i, !.attempts = Append(@, i)]
  IN  IF a.type = "wait"
      THEN [exec |-> [e1 EXCEPT !.pc = "waiting", !.sleeps = Append(@, WaitMs)],
            dom |-> d]
      ELSE LET r == executeAction(d, e.events, a)
               e2 == [e1 EXCEPT !.results = Append(@, r.result),
                                !.events = r.events]
           IN  IF ~r.result.success
               THEN [exec |-> [e2 EXCEPT !.pc = "done"], dom |-> r.dom]
               ELSE [exec |-> [e2 EXCEPT !.pc = "delay",
                                         !.sleeps = Append(@, DelayMs)],
                     dom |-> r.dom]

\* ------------------------------------------------------------------------
\* extractActions: the reply text of the model is a sequence of tokens
\*   <<"prose">>   text without brackets      <<"[">> <<"]">> <<",">>
\*   <<"obj", a>>  the JSON object of action a
\* ------------------------------------------------------------------------
Positions(text, tok) == { p \in 1..Len(text) : text[p] = tok }

\* text.match(/\[[\s\S]*\]/): the span from the first '[' to the last ']'
\* behind it, <<>> when there is no match
JsonMatch(text) ==
  LET opens == Positions(text, <<"[">>)
      closes == Positions(text, <<"]">>)
      first == SeqMin(opens)
      last == CHOOSE p \in closes : \A q \in closes : q <= p
  IN  IF opens = {} \/ closes = {} THEN <<>>
      ELSE IF last < first THEN <<>>
      ELSE SubSeq(text, first, last)

RECURSIVE ElemsEnd(_, _)
\* t[p] is expected to start an element of an array: the position behind
\* the closing bracket of that array, 0 when the text is no JSON
ElemsEnd(t, p) ==
  IF p + 1 > Len(t) THEN 0
  ELSE IF t[p][1] # "obj" THEN 0
  ELSE IF t[p + 1] = <<"]">> THEN p + 2
  ELSE IF t[p + 1] = <<",">> THEN ElemsEnd(t, p + 2)
  ELSE 0

\* JSON.parse accepts the span
IsJsonArray(t) ==
  /\ Len(t) >= 2
  /\ t[1] = <<"[">>
  /\ IF t[2] = <<"]">> THEN Len(t) = 2 ELSE ElemsEnd(t, 2) = Len(t) + 1

\* the decoded array of a span JSON.parse accepts
JsonParse(t) ==
  LET objs == SeqOfSet({ p \in 1..Len(t) : t[p][1] = "obj" })
  IN  [k \in 1..Len(objs) |-> t[objs[k]][2]]

\* extractActions: ok is FALSE when it throws
extractActions(text) ==
  LET m == JsonMatch(text)
  IN  IF m = <<>> THEN [ok |-> FALSE, actions |-> <<>>]
      ELSE IF ~IsJsonArray(m) THEN [ok |-> FALSE, actions |-> <<>>]
      ELSE [ok |-> TRUE, actions |-> JsonParse(m)]

\* what analyzePageAndGetActions of ClaudeClient does with the text of the
\* first content block: error names what it throws
ClaudeDecode(text) ==
  LET ex == extractActions(text)
  IN  [ok |-> ex.ok, actions |-> ex.actions,
       error |-> IF ex.ok THEN "" ELSE "parse"]

\* OpenAIDecode that wants the reply to start with the array
OpenAIDecodeAnchored(text) ==
  LET ex == extractActions(text)
  IN  IF text = <<>> THEN [ok |-> FALSE, actions |-> <<>>, error |-> "no response"]
      ELSE IF text[1] # <<"[">> THEN [ok |-> FALSE, actions |-> <<>>, error |-> "parse"]
      ELSE [ok |-> ex.ok, actions |-> ex.actions,
            error |-> IF ex.ok THEN "" ELSE "parse"]

\* what analyzePageAndGetActions of OpenAIClient does with the content of
\* the first choice: an empty content is 'No response from OpenAI'
OpenAIDecode(text) ==
  LET ex == extractActions(text)
  IN  IF text = <<>> THEN [ok |-> FALSE, actions |-> <<>>, error |-> "no response"]
      ELSE [ok |-> ex.ok, actions |-> ex.actions,
            error |-> IF ex.ok THEN "" ELSE "parse"]

\* the decoding of the client createAIClient has built for the provider
Decode(provider, text) ==
  IF provider = "claude" THEN ClaudeDecode(text) ELSE OpenAIDecode(text)

\* ------------------------------------------------------------------------
\* Inputs
\* ------------------------------------------------------------------------
Act(type, sel, value) == [type |-> type, selector |-> sel, value |-> value]

\* the selectors the planner may put into an action
Selectors ==
  { <<"#", "terms">>, <<"#", "a">>, <<"#", "b">>, <<"#", "d">>, <<"#", "s">>,
    <<"#", "off">>, <<"#", "missing">>, <<"invalid">>, NoSelector }

\* "hover" stands for a type outside click, fill and wait
ActionTypes == {"click", "fill", "wait", "hover"}

\* the actions of the lists SpecExec starts from
Actions ==
  { Act(ty, sel, Undefined) : ty \in ActionTypes, sel \in Selectors }
  \cup { Act("fill", sel, "v") : sel \in Selectors }
  \cup { Act("wait", NoSelector, ms) : ms \in {"500", "2000"} }

RECURSIVE Lists(_, _)
\* all sequences over S of length at most n
Lists(S, n) ==
  IF n = 0 THEN { <<>> }
  ELSE LET shorter == Lists(S, n - 1)
       IN  shorter \cup { Append(l, x) : l \in { m \in shorter : Len(m) = n - 1 }, x \in S }

ActionLists == Lists(Actions, MaxActions)

\* the actions of the lists SpecExecFair starts from: one for each way an
\* action can end
FairActions ==
  { Act("click", <<"#", "a">>, Undefined), Act("click", <<"#", "off">>, Undefined),
    Act("fill", <<"#", "b">>, "v"), Act("fill", <<"#", "d">>, "v"),
    Act("wait", NoSelector, Undefined), Act("wait", <<"invalid">>, "2000"),
    Act("click", <<"#", "missing">>, Undefined), Act("click", <<"invalid">>, Undefined),
    Act("click", <<"#", "s">>, Undefined), Act("hover", <<"#", "a">>, Undefined) }

FairLists == Lists(FairActions, MaxActions)

RECURSIVE Items(_)
\* the tokens of the elements of a JSON array
Items(l) ==
  IF l = <<>> THEN <<>>
  ELSE IF Len(l) = 1 THEN << <<"obj", l[1]>> >>
  ELSE << <<"obj", l[1]>>, <<",">> >> \o Items(Tail(l))

Json(l) == << <<"[">> >> \o Items(l) \o << <<"]">> >>

\* the reply texts of the model in Spec
Replies ==
  { << <<"prose">> >>,
    Json(<<>>),
    << <<"prose">> >> \o Json(<< Act("click", <<"#", "a">>, Undefined),
                                 Act("fill", <<"#", "b">>, "v") >>),
    Json(<< Act("click", <<"#", "terms">>, Undefined),
            Act("wait", NoSelector, Undefined) >>) \o << <<"prose">> >>,
    Json(<< Act("click", <<"#", "terms">>, Undefined) >>)
      \o << <<"prose">>, <<"]">> >> }

\* the actions of the arrays in the replies SpecPlan starts from: a click,
\* a fill and a wait as the system prompt asks for them, an action of
\* another type and a click without selector
PlanActions ==
  { Act("click", <<"#", "a">>, Undefined), Act("fill", <<"#", "b">>, "v"),
    Act("wait", NoSelector, Undefined), Act("hover", <<"#", "a">>, Undefined),
    Act("click", NoSelector, Undefined) }

PlanLists == Lists(PlanActions, MaxPlan)

\* the prose before and behind the array: none, plain text, text with an
\* opening and text with a closing bracket in it
Prose ==
  { <<>>, << <<"prose">> >>,
    << <<"prose">>, <<"[">>, <<"prose">> >>,
    << <<"prose">>, <<"]">>, <<"prose">> >> }

\* what stands between the two pieces of prose: nothing, a JSON array of
\* actions, an array without its commas and an array with a trailing comma
Bodies ==
  { <<>> }
  \cup { Json(l) : l \in PlanLists }
  \cup { << <<"[">>, <<"obj", a>>, <<"obj", a>>, <<"]">> >> : a \in PlanActions }
  \cup { << <<"[">>, <<"obj", a>>, <<",">>, <<"]">> >> : a \in PlanActions }

\* the reply texts of the model in SpecPlan
PlanTexts == { pre \o body \o post : pre \in Prose, body \in Bodies, post \in Prose }

\* the elements of the pages SpecObserve starts from
ElementKinds ==
  { [El("input", "text", "x", TRUE, {}) EXCEPT
       !.name = "n", !.classes = {"c"}, !.placeholder = "p", !.text = 5],
    [El("input", "text", "", TRUE, {}) EXCEPT !.name = "n", !.classes = {"c"}],
    [El("button", "submit", "", TRUE, {}) EXCEPT !.classes = {"c"}, !.text = 150],
    [El("input", "text", "", TRUE, {}) EXCEPT !.placeholder = "p"],
    [El("input", "text", "", TRUE, {}) EXCEPT !.classes = {"c"}, !.placeholder = "p"],
    El("input", "text", "", TRUE, {}),
    [El("input", "text", "", TRUE, {}) EXCEPT !.display = "none"],
    [El("button", "submit", "", TRUE, {}) EXCEPT
       !.classes = {"c"}, !.visibility = "hidden"],
    [El("a", "", "", TRUE, {}) EXCEPT !.clickable = TRUE, !.opacity = "0"],
    [El("a", "", "", FALSE, {}) EXCEPT !.clickable = TRUE],
    El("input", "hidden", "", TRUE, {}),
    El("div", "", "", TRUE, {}) }

\* the page with the elements els in document order; with nest, an element
\* that is no div is a child of the nearest div before it
PageOf(els, nest) ==
  [i \in 1..Len(els) |->
     LET divs == { j \in 1..(i - 1) : els[j].tag = "div" }
     IN  [els[i] EXCEPT !.parent =
            IF nest /\ els[i].tag # "div" /\ divs # {}
            THEN CHOOSE j \in divs : \A k \in divs : k <= j
            ELSE 0]]

\* a page of n buttons, of which button h is not displayed
LongPage(n, h) ==
  [i \in 1..n |->
     [El("button", "submit", "", TRUE, {}) EXCEPT
        !.display = IF i = h THEN "none" ELSE "block"]]

\* the root element of a document with a click handler; it has no parent
\* element
RootElement == [El("html", "", "", TRUE, {}) EXCEPT !.clickable = TRUE]

\* the page with the root element in front of it
WithRoot(page) ==
  <<RootElement>> \o
  [i \in 1..Len(page) |->
     [page[i] EXCEPT !.parent = IF @ = 0 THEN 0 ELSE @ + 1]]

Pages ==
  { PageOf(els, nest) : els \in Lists(ElementKinds, MaxPage), nest \in BOOLEAN }
  \cup { WithRoot(PageOf(els, nest)) :
           els \in Lists(ElementKinds, MaxPage - 1), nest \in BOOLEAN }
  \cup { LongPage(n, h) : n \in (MaxElements - 1)..(MaxElements + MaxExtra),
                          h \in {0, 1, MaxElements} }

\* the texts the user may type into the command box
CommandTexts == {" ", "go"}

\* command.trim()
Trim(text) == IF text = " " THEN "" ELSE text

NullClient == [provider |-> "null", apiKey |-> ""]

Providers == {"claude", "openai"}
\* what the user may type into a key field
Keys == {"", " ", "sk-ant-1", "sk-ant-2", "sk-1", "key"}
\* what chrome.storage.local may hold for the settings ("": not stored)
StoredProviders == {"", "claude", "openai"}
StoredClaudeKeys == {"", "sk-ant-1"}
StoredOpenaiKeys == {"", "sk-1", "sk-ant-2"}

\* the tabs of the browser: two web pages, a browser system page and a web
\* page the content script cannot be injected into; "none": no active tab.
\* The url of a tab's page is the name of the tab.
TabIds == {"web", "web2", "sys", "store"}
TabInfo ==
  [web |-> [restricted |-> FALSE, injectable |-> TRUE, page |-> DemoPage],
   web2 |-> [restricted |-> FALSE, injectable |-> TRUE, page |-> OtherPage],
   sys |-> [restricted |-> TRUE, injectable |-> FALSE, page |-> <<>>],
   store |-> [restricted |-> FALSE, injectable |-> FALSE, page |-> <<>>]]

\* ------------------------------------------------------------------------
\* State
\* ------------------------------------------------------------------------
VARIABLES
  \* side panel
  commandInput,       \* commandInput.value
  sendBtnDisabled,    \* sendBtn.disabled
  statusHidden,       \* statusBar carries the class hidden
  aiClient,           \* the client: its provider and the key it was built with
  currentProvider,
  providerSelect,     \* providerSelect.value
  claudeApiKeyInput,  \* claudeApiKeyInput.value
  openaiApiKeyInput,  \* openaiApiKeyInput.value
  \* one invocation of handleSendCommand per command
  pc,        \* the await it is suspended at, "idle" before, "done" after
  context,   \* <<>> for null, else <<the PageContext>>
  actions,   \* the list analyzePageAndGetActions returned
  results,   \* the list executeActions (side panel) returned
  chat,      \* the messages the command added to the chat, in order
  trace,     \* the requests the command issued, in order
  aiReq,     \* the requests sent to the AI backend for the command
  req,       \* the request of the command that is under way: its type,
             \* where it is, the tab it was forwarded to, its data and
             \* the response to it
  \* browser
  activeTab, \* the active tab of the last focused window, "none" if none
  loaded,    \* per tab: the content script listens
  dom,       \* per tab: the page
  \* content script
  exec       \* per command: the invocation of executeActions

uiVars == <<commandInput, sendBtnDisabled, statusHidden, aiClient,
            currentProvider, providerSelect, claudeApiKeyInput,
            openaiApiKeyInput>>
cmdVars == <<pc, context, actions, results, chat, trace, aiReq>>
vars == <<uiVars, cmdVars, req, activeTab, loaded, dom, exec>>

NoResp == [success |-> FALSE, error |-> "", context |-> <<>>,
           screenshot |-> Undefined, results |-> <<>>, text |-> <<>>]
NoReq == [type |-> "none", stage |-> "none", tab |-> "none", data |-> <<>>,
          resp |-> NoResp]
NoExec == [pc |-> "none", tab |-> "none", actions |-> <<>>, i |-> 0,
           results |-> <<>>, attempts |-> <<>>, sleeps |-> <<>>,
           events |-> <<>>]

Failure(error) == [NoResp EXCEPT !.error = error]

Init ==
  /\ commandInput = ""
  /\ sendBtnDisabled = FALSE
  /\ statusHidden = TRUE
  /\ aiClient = [provider |-> "claude", apiKey |-> "sk-ant-1"]
  /\ currentProvider = "claude"
  /\ providerSelect = "claude"
  /\ claudeApiKeyInput = "sk-ant-1"
  /\ openaiApiKeyInput = "sk-1"
  /\ pc = [c \in Cmds |-> "idle"]
  /\ context = [c \in Cmds |-> <<>>]
  /\ actions = [c \in Cmds |-> <<>>]
  /\ results = [c \in Cmds |-> <<>>]
  /\ chat = [c \in Cmds |-> <<>>]
  /\ trace = [c \in Cmds |-> <<>>]
  /\ aiReq = [c \in Cmds |-> <<>>]
  /\ req = [c \in Cmds |-> NoReq]
  /\ activeTab \in (TabIds \ {"web2"}) \cup {"none"}  \* the second web page matters only to a user who switches tabs
  /\ loaded = [t \in TabIds |-> FALSE]
  /\ dom = [t \in TabIds |-> TabInfo[t].page]
  /\ exec = [c \in Cmds |-> NoExec]

\* ------------------------------------------------------------------------
\* The user and the browser
\* ------------------------------------------------------------------------
TypeCommand(text) ==
  /\ commandInput # text
  /\ commandInput' = text
  /\ UNCHANGED <<sendBtnDisabled, statusHidden, aiClient, currentProvider,
                 providerSelect, claudeApiKeyInput, openaiApiKeyInput,
                 cmdVars, req, activeTab, loaded, dom, exec>>

createAIClient(provider, apiKey) == [provider |-> provider, apiKey |-> apiKey]

\* startsWith of the key format checks
HasPrefix(key, provider) ==
  IF provider = "claude" THEN key \in {"sk-ant-1", "sk-ant-2"}
  ELSE key \in {"sk-ant-1", "sk-ant-2", "sk-1"}

\* the user picks a provider in the settings panel
SelectProvider(p) ==
  /\ p # providerSelect
  /\ providerSelect' = p
  /\ UNCHANGED <<commandInput, sendBtnDisabled, statusHidden, aiClient,
                 currentProvider, claudeApiKeyInput, openaiApiKeyInput,
                 cmdVars, req, activeTab, loaded, dom, exec>>

\* the user edits the key fields of the settings panel
EditClaudeKey(k) ==
  /\ k # claudeApiKeyInput
  /\ claudeApiKeyInput' = k
  /\ UNCHANGED <<commandInput, sendBtnDisabled, statusHidden, aiClient,
                 currentProvider, providerSelect, openaiApiKeyInput,
                 cmdVars, req, activeTab, loaded, dom, exec>>

EditOpenaiKey(k) ==
  /\ k # openaiApiKeyInput
  /\ openaiApiKeyInput' = k
  /\ UNCHANGED <<commandInput, sendBtnDisabled, statusHidden, aiClient,
                 currentProvider, providerSelect, claudeApiKeyInput,
                 cmdVars, req, activeTab, loaded, dom, exec>>

\* SaveSettings that builds the client with the Claude key whatever the
\* selected provider is
SaveSettingsClaudeKey ==
  LET selectedProvider == providerSelect
      claudeKey == Trim(claudeApiKeyInput)
      openaiKey == Trim(openaiApiKeyInput)
      apiKey == IF selectedProvider = "claude" THEN claudeKey ELSE openaiKey
  IN  /\ apiKey # ""
      /\ HasPrefix(apiKey, selectedProvider)
      /\ currentProvider' = selectedProvider
      /\ aiClient' = createAIClient(selectedProvider, claudeKey)
      /\ sendBtnDisabled' = FALSE
      /\ UNCHANGED <<commandInput, statusHidden, providerSelect,
                     claudeApiKeyInput, openaiApiKeyInput, cmdVars, req,
                     activeTab, loaded, dom, exec>>

\* saveSettingsBtn click listener
SaveSettings ==
  LET selectedProvider == providerSelect
      claudeKey == Trim(claudeApiKeyInput)
      openaiKey == Trim(openaiApiKeyInput)
      apiKey == IF selectedProvider = "claude" THEN claudeKey ELSE openaiKey
  IN  /\ apiKey # ""
      /\ HasPrefix(apiKey, selectedProvider)
      /\ currentProvider' = selectedProvider
      /\ aiClient' = createAIClient(selectedProvider, apiKey)
      /\ sendBtnDisabled' = FALSE
      /\ UNCHANGED <<commandInput, statusHidden, providerSelect,
                     claudeApiKeyInput, openaiApiKeyInput, cmdVars, req,
                     activeTab, loaded, dom, exec>>

\* ------------------------------------------------------------------------
\* Side panel: handleSendCommand up to its first await
\* ------------------------------------------------------------------------
\* chrome.runtime.sendMessage({type, data}) of command c
SendMessage(c, type, data) ==
  /\ req' = [req EXCEPT ![c] = [NoReq EXCEPT !.type = type,
                                             !.stage = "background",
                                             !.data = data]]
  /\ trace' = [trace EXCEPT ![c] = Append(@, type)]

\* the commands are numbered in the order they are started
IsNext(c) == pc[c] = "idle" /\ \A b \in Cmds : b < c => pc[b] # "idle"

handleSendCommand(c) ==
  /\ IsNext(c)
  /\ Trim(commandInput) # ""
  /\ aiClient # NullClient
  /\ commandInput' = ""
  /\ sendBtnDisabled' = TRUE
  /\ chat' = [chat EXCEPT ![c] = Append(@, <<"user">>)]
  /\ statusHidden' = FALSE
  /\ SendMessage(c, "GET_PAGE_CONTEXT", <<>>)
  /\ pc' = [pc EXCEPT ![c] = "getPageContext"]
  /\ UNCHANGED <<aiClient, currentProvider, providerSelect, claudeApiKeyInput,
                 openaiApiKeyInput, context, actions, results, aiReq,
                 activeTab, loaded, dom, exec>>

\* sendBtn click listener: a disabled button dispatches no click
SendClick(c) ==
  /\ ~sendBtnDisabled
  /\ handleSendCommand(c)

\* commandInput keydown listener, Enter without Shift
EnterKey(c) == handleSendCommand(c)

\* ------------------------------------------------------------------------
\* Background relay
\* ------------------------------------------------------------------------
\* the url check of the relay
IsRestrictedUrl(t) == TabInfo[t].restricted

\* the user activates another tab, or closes the last one
ActivateTab(t) ==
  /\ t # activeTab
  /\ activeTab' = t
  /\ UNCHANGED <<uiVars, cmdVars, req, loaded, dom, exec>>

\* the callback of chrome.tabs.sendMessage runs with chrome.runtime.lastError
\* set: the page was unloaded, and its content script with it, before the
\* listener has answered
ForwardFails(c) ==
  /\ req[c].stage \in {"content", "executing"}
  /\ req[c].type \in {"GET_PAGE_CONTEXT", "EXECUTE_ACTIONS"}
  /\ req' = [req EXCEPT ![c].stage = "response",
                        ![c].resp = Failure("message port closed")]
  /\ exec' = [exec EXCEPT ![c] = NoExec]
  /\ loaded' = [loaded EXCEPT ![req[c].tab] = FALSE]
  /\ UNCHANGED <<uiVars, cmdVars, activeTab, dom>>

\* BgRelay that returns without a response when there is no active tab
BgRelayNoTabSilent(c) ==
  /\ req[c].stage = "background"
  /\ req[c].type \in {"GET_PAGE_CONTEXT", "EXECUTE_ACTIONS"}
  /\ IF activeTab = "none"
     THEN /\ req' = [req EXCEPT ![c].stage = "dropped"]
          /\ UNCHANGED loaded
     ELSE IF IsRestrictedUrl(activeTab)
     THEN /\ req' = [req EXCEPT ![c].stage = "response",
                                ![c].resp = Failure("Cannot access this page")]
          /\ UNCHANGED loaded
     ELSE IF ~loaded[activeTab] /\ ~TabInfo[activeTab].injectable
     THEN /\ req' = [req EXCEPT ![c].stage = "response",
                                ![c].resp = Failure("Cannot inject content script")]
          /\ UNCHANGED loaded
     ELSE /\ loaded' = [loaded EXCEPT ![activeTab] = TRUE]
          /\ req' = [req EXCEPT ![c].stage = "content", ![c].tab = activeTab]
  /\ UNCHANGED <<uiVars, cmdVars, activeTab, dom, exec>>

\* BgRelay that forwards the message whatever ensureContentScriptLoaded
\* has returned
BgRelayNoLoadedCheck(c) ==
  /\ req[c].stage = "background"
  /\ req[c].type \in {"GET_PAGE_CONTEXT", "EXECUTE_ACTIONS"}
  /\ IF activeTab = "none"
     THEN /\ req' = [req EXCEPT ![c].stage = "response",
                                ![c].resp = Failure("No active tab found")]
          /\ UNCHANGED loaded
     ELSE IF IsRestrictedUrl(activeTab)
     THEN /\ req' = [req EXCEPT ![c].stage = "response",
                                ![c].resp = Failure("Cannot access this page")]
          /\ UNCHANGED loaded
     ELSE /\ loaded' = [loaded EXCEPT ![activeTab] =
                          @ \/ TabInfo[activeTab].injectable]
          /\ req' = [req EXCEPT ![c].stage = "content", ![c].tab = activeTab]
  /\ UNCHANGED <<uiVars, cmdVars, activeTab, dom, exec>>

\* onMessage for GET_PAGE_CONTEXT and EXECUTE_ACTIONS: the tabs.query
\* callback with ensureContentScriptLoaded, up to the forwarding of the
\* message to the tab or the failure response
BgRelay(c) ==
  /\ req[c].stage = "background"
  /\ req[c].type \in {"GET_PAGE_CONTEXT", "EXECUTE_ACTIONS"}
  /\ IF activeTab = "none"
     THEN /\ req' = [req EXCEPT ![c].stage = "response",
                                ![c].resp = Failure("No active tab found")]
          /\ UNCHANGED loaded
     ELSE IF IsRestrictedUrl(activeTab)
     THEN /\ req' = [req EXCEPT ![c].stage = "response",
                                ![c].resp = Failure("Cannot access this page")]
          /\ UNCHANGED loaded
     ELSE IF ~loaded[activeTab] /\ ~TabInfo[activeTab].injectable
     THEN /\ req' = [req EXCEPT ![c].stage = "response",
                                ![c].resp = Failure("Cannot inject content script")]
          /\ UNCHANGED loaded
     ELSE /\ loaded' = [loaded EXCEPT ![activeTab] = TRUE]
          /\ req' = [req EXCEPT ![c].stage = "content", ![c].tab = activeTab]
  /\ UNCHANGED <<uiVars, cmdVars, activeTab, dom, exec>>

\* onMessage for CAPTURE_SCREENSHOT; captureVisibleTab rejects on a browser
\* system page
BgCaptureScreenshot(c) ==
  /\ req[c].stage = "background"
  /\ req[c].type = "CAPTURE_SCREENSHOT"
  /\ IF activeTab = "none"
     THEN req' = [req EXCEPT ![c].stage = "response",
                             ![c].resp = Failure("No active tab found")]
     ELSE IF IsRestrictedUrl(activeTab)
     THEN req' = [req EXCEPT ![c].stage = "response",
                             ![c].resp = Failure("capture failed")]
     ELSE req' = [req EXCEPT ![c].stage = "response",
                             ![c].resp = [NoResp EXCEPT !.success = TRUE,
                                                        !.screenshot = "png"]]
  /\ UNCHANGED <<uiVars, cmdVars, activeTab, loaded, dom, exec>>

\* ------------------------------------------------------------------------
\* Content script listener
\* ------------------------------------------------------------------------
\* ContentGetPageContext with a getSelector that numbers the elements anew
\* at every call instead of deriving the selector from the element
ContentGetPageContextFresh(c) ==
  LET ctx == extractPageContext(dom[req[c].tab])
      calls == Cardinality({ b \in Cmds : req[b].stage = "response" })
      fresh == [k \in 1..Len(ctx.elements) |->
                  [ctx.elements[k] EXCEPT
                     !.selector = <<"nth", ctx.elements[k].tag, 1000 * (calls + 1) + k>>]]
  IN  /\ req[c].stage = "content"
      /\ req[c].type = "GET_PAGE_CONTEXT"
      /\ req' = [req EXCEPT ![c].stage = "response",
                            ![c].resp = [NoResp EXCEPT
                                           !.success = TRUE,
                                           !.context = <<[ctx EXCEPT !.elements = fresh]
                                                          @@ [url |-> req[c].tab]>>]]
      /\ UNCHANGED <<uiVars, cmdVars, activeTab, loaded, dom, exec>>

ContentGetPageContext(c) ==
  /\ req[c].stage = "content"
  /\ req[c].type = "GET_PAGE_CONTEXT"
  /\ req' = [req EXCEPT ![c].stage = "response",
                        ![c].resp = [NoResp EXCEPT
                                       !.success = TRUE,
                                       !.context = <<extractPageContext(dom[req[c].tab])
                                                      @@ [url |-> req[c].tab]>>]]
  /\ UNCHANGED <<uiVars, cmdVars, activeTab, loaded, dom, exec>>

\* Run for an executeAction without the try and catch: the exception of
\* document.querySelector leaves executeAction, the promise of
\* executeActions is rejected and the then callback never answers
RunNoCatch(c, e, i) ==
  LET t == e.tab
      out == Iterate(e, dom[t], i)
      res == out.exec.results
      thrown == /\ Len(res) > Len(e.results)
                /\ ~res[Len(res)].success
                /\ res[Len(res)].error[1] = "SyntaxError"
  IN  /\ dom' = [dom EXCEPT ![t] = out.dom]
      /\ IF thrown
         THEN /\ exec' = [exec EXCEPT ![c] = [out.exec EXCEPT !.pc = "rejected",
                                                              !.results = e.results]]
              /\ req' = [req EXCEPT ![c].stage = "executing"]
         ELSE /\ exec' = [exec EXCEPT ![c] = out.exec]
              /\ IF out.exec.pc = "done"
                 THEN req' = [req EXCEPT ![c].stage = "response",
                                         ![c].resp = [NoResp EXCEPT
                                                        !.success = TRUE,
                                                        !.results = out.exec.results]]
                 ELSE req' = [req EXCEPT ![c].stage = "executing"]

\* the state after the loop has run from iteration i to its next
\* suspension; when executeActions has returned, the listener answers
Run(c, e, i) ==
  LET t == e.tab
      out == Iterate(e, dom[t], i)
  IN  /\ exec' = [exec EXCEPT ![c] = out.exec]
      /\ dom' = [dom EXCEPT ![t] = out.dom]
      /\ IF out.exec.pc = "done"
         THEN req' = [req EXCEPT ![c].stage = "response",
                                 ![c].resp = [NoResp EXCEPT
                                                !.success = TRUE,
                                                !.results = out.exec.results]]
         ELSE req' = [req EXCEPT ![c].stage = "executing"]

\* the listener receives EXECUTE_ACTIONS and calls executeActions
ContentExecuteActions(c) ==
  /\ req[c].stage = "content"
  /\ req[c].type = "EXECUTE_ACTIONS"
  /\ Run(c, [NoExec EXCEPT !.tab = req[c].tab, !.actions = req[c].data], 1)
  /\ UNCHANGED <<uiVars, cmdVars, activeTab, loaded>>

\* the timeout of a wait action fires: executeAction returns success and
\* executeActions starts the delay between two actions
WaitTimerFires(c) ==
  /\ exec[c].pc = "waiting"
  /\ exec' = [exec EXCEPT ![c].pc = "delay",
                          ![c].results = Append(@, Ok(exec[c].actions[exec[c].i])),
                          ![c].sleeps = Append(@, DelayMs)]
  /\ UNCHANGED <<uiVars, cmdVars, req, activeTab, loaded, dom>>

\* DelayTimerFires for a delay whose promise is never resolved
DelayTimerLost(c) ==
  /\ exec[c].pc = "delay"
  /\ UNCHANGED vars

\* the timeout between two actions fires: the loop goes on
DelayTimerFires(c) ==
  /\ exec[c].pc = "delay"
  /\ Run(c, exec[c], exec[c].i + 1)
  /\ UNCHANGED <<uiVars, cmdVars, activeTab, loaded>>

\* ------------------------------------------------------------------------
\* Side panel: the continuations of handleSendCommand
\* ------------------------------------------------------------------------
\* Finish that leaves the status bar as it is
FinishKeepsStatus(c) ==
  /\ sendBtnDisabled' = FALSE
  /\ statusHidden' = statusHidden
  /\ pc' = [pc EXCEPT ![c] = "done"]
  /\ context' = [context EXCEPT ![c] = <<>>]
  /\ actions' = [actions EXCEPT ![c] = <<>>]
  /\ results' = [results EXCEPT ![c] = <<>>]

\* the finally block, also the early returns: sendBtn.disabled = false and
\* hideStatus(); the locals context, actions and results end with the call
Finish(c) ==
  /\ sendBtnDisabled' = FALSE
  /\ statusHidden' = TRUE
  /\ pc' = [pc EXCEPT ![c] = "done"]
  /\ context' = [context EXCEPT ![c] = <<>>]
  /\ actions' = [actions EXCEPT ![c] = <<>>]
  /\ results' = [results EXCEPT ![c] = <<>>]

\* GetPageContextReturns that, after a failure, reports it and asks for the
\* page context a second time
GetPageContextReturnsAgain(c) ==
  LET resp == req[c].resp
      ctx == IF resp.success THEN resp.context ELSE <<>>
  IN  /\ pc[c] = "getPageContext"
      /\ req[c].stage = "response"
      /\ IF ctx = <<>> /\ Len(trace[c]) < 2
         THEN /\ chat' = [chat EXCEPT ![c] =
                   IF resp.success THEN @
                   ELSE Append(@, <<"error", "Failed to access page", resp.error>>)]
              /\ SendMessage(c, "GET_PAGE_CONTEXT", <<>>)
              /\ UNCHANGED <<pc, context, sendBtnDisabled, statusHidden, actions,
                             results>>
         ELSE IF ctx = <<>>
         THEN /\ chat' = [chat EXCEPT ![c] =
                   IF resp.success THEN @
                   ELSE Append(@, <<"error", "Failed to access page", resp.error>>)]
              /\ Finish(c)
              /\ req' = [req EXCEPT ![c] = NoReq]
              /\ UNCHANGED trace
         ELSE /\ context' = [context EXCEPT ![c] = ctx]
              /\ statusHidden' = FALSE
              /\ SendMessage(c, "CAPTURE_SCREENSHOT", <<>>)
              /\ pc' = [pc EXCEPT ![c] = "captureScreenshot"]
              /\ UNCHANGED <<chat, sendBtnDisabled, actions, results>>
      /\ UNCHANGED <<commandInput, aiClient, currentProvider, providerSelect,
                     claudeApiKeyInput, openaiApiKeyInput, aiReq, activeTab,
                     loaded, dom, exec>>

\* getPageContext resumes with the response and handleSendCommand goes on
\* to captureScreenshot
GetPageContextReturns(c) ==
  LET resp == req[c].resp
      ctx == IF resp.success THEN resp.context ELSE <<>>
  IN  /\ pc[c] = "getPageContext"
      /\ req[c].stage = "response"
      /\ IF ctx = <<>>
         THEN /\ chat' = [chat EXCEPT ![c] =
                   IF resp.success THEN @
                   ELSE Append(@, <<"error", "Failed to access page", resp.error>>)]
              /\ Finish(c)
              /\ req' = [req EXCEPT ![c] = NoReq]
              /\ UNCHANGED trace
         ELSE /\ context' = [context EXCEPT ![c] = ctx]
              /\ statusHidden' = FALSE
              /\ SendMessage(c, "CAPTURE_SCREENSHOT", <<>>)
              /\ pc' = [pc EXCEPT ![c] = "captureScreenshot"]
              /\ UNCHANGED <<chat, sendBtnDisabled, actions, results>>
      /\ UNCHANGED <<commandInput, aiClient, currentProvider, providerSelect,
                     claudeApiKeyInput, openaiApiKeyInput, aiReq, activeTab,
                     loaded, dom, exec>>

\* CaptureScreenshotReturns that ends the command when the capture has
\* failed
CaptureScreenshotReturnsAborts(c) ==
  LET resp == req[c].resp
      screenshot == IF resp.success THEN resp.screenshot ELSE Undefined
      ctx == [context[c][1] EXCEPT !.screenshot = screenshot]
  IN  /\ pc[c] = "captureScreenshot"
      /\ req[c].stage = "response"
      /\ IF ~resp.success
         THEN /\ Finish(c)
              /\ req' = [req EXCEPT ![c] = NoReq]
              /\ UNCHANGED <<aiReq, trace>>
         ELSE /\ context' = [context EXCEPT ![c] = <<ctx>>]
              /\ statusHidden' = FALSE
              /\ aiReq' = [aiReq EXCEPT ![c] =
                             Append(@, [provider |-> aiClient.provider,
                                        apiKey |-> aiClient.apiKey,
                                        image |-> ctx.screenshot # Undefined])]
              /\ trace' = [trace EXCEPT ![c] = Append(@, "AI")]
              /\ req' = [req EXCEPT ![c] = [NoReq EXCEPT !.type = "AI", !.stage = "backend"]]
              /\ pc' = [pc EXCEPT ![c] = "analyze"]
              /\ UNCHANGED <<sendBtnDisabled, actions, results>>
      /\ UNCHANGED <<commandInput, aiClient, currentProvider,
                     providerSelect, claudeApiKeyInput, openaiApiKeyInput,
                     chat, activeTab, loaded, dom, exec>>

\* captureScreenshot resumes and handleSendCommand calls
\* analyzePageAndGetActions, which sends its one request
CaptureScreenshotReturns(c) ==
  LET resp == req[c].resp
      screenshot == IF resp.success THEN resp.screenshot ELSE Undefined
      ctx == [context[c][1] EXCEPT !.screenshot = screenshot]
  IN  /\ pc[c] = "captureScreenshot"
      /\ req[c].stage = "response"
      /\ context' = [context EXCEPT ![c] = <<ctx>>]
      /\ statusHidden' = FALSE
      /\ aiReq' = [aiReq EXCEPT ![c] =
                     Append(@, [provider |-> aiClient.provider,
                                apiKey |-> aiClient.apiKey,
                                image |-> ctx.screenshot # Undefined])]
      /\ trace' = [trace EXCEPT ![c] = Append(@, "AI")]
      /\ req' = [req EXCEPT ![c] = [NoReq EXCEPT !.type = "AI", !.stage = "backend"]]
      /\ pc' = [pc EXCEPT ![c] = "analyze"]
      /\ UNCHANGED <<commandInput, sendBtnDisabled, aiClient, currentProvider,
                     providerSelect, claudeApiKeyInput, openaiApiKeyInput,
                     actions, results, chat, activeTab, loaded, dom, exec>>

\* the AI backend answers the request with a text
AiResponds(c, text) ==
  /\ req[c].type = "AI"
  /\ req[c].stage = "backend"
  /\ req' = [req EXCEPT ![c].stage = "response",
                        ![c].resp = [NoResp EXCEPT !.success = TRUE, !.text = text]]
  /\ UNCHANGED <<uiVars, cmdVars, activeTab, loaded, dom, exec>>

\* the request to the AI backend fails, or its answer carries no text
AiFails(c, error) ==
  /\ req[c].type = "AI"
  /\ req[c].stage = "backend"
  /\ req' = [req EXCEPT ![c].stage = "response", ![c].resp = Failure(error)]
  /\ UNCHANGED <<uiVars, cmdVars, activeTab, loaded, dom, exec>>

\* AnalyzeReturns with a catch block that only logs to the console
AnalyzeReturnsSilent(c) ==
  LET resp == req[c].resp
      ex == IF resp.success THEN Decode(aiReq[c][Len(aiReq[c])].provider, resp.text)
            ELSE [ok |-> FALSE, actions |-> <<>>, error |-> resp.error]
  IN  /\ pc[c] = "analyze"
      /\ req[c].stage = "response"
      /\ IF ~ex.ok
         THEN /\ Finish(c)
              /\ req' = [req EXCEPT ![c] = NoReq]
              /\ UNCHANGED <<chat, trace>>
         ELSE IF Len(ex.actions) = 0
         THEN /\ chat' = [chat EXCEPT ![c] = Append(@, <<"assistant", "no actions">>)]
              /\ Finish(c)
              /\ req' = [req EXCEPT ![c] = NoReq]
              /\ UNCHANGED trace
         ELSE /\ chat' = [chat EXCEPT ![c] = Append(@, <<"assistant", "plan", Len(ex.actions)>>)]
              /\ actions' = [actions EXCEPT ![c] = ex.actions]
              /\ statusHidden' = FALSE
              /\ SendMessage(c, "EXECUTE_ACTIONS", ex.actions)
              /\ pc' = [pc EXCEPT ![c] = "executeActions"]
              /\ UNCHANGED <<sendBtnDisabled, context, results>>
      /\ UNCHANGED <<commandInput, aiClient, currentProvider, providerSelect,
                     claudeApiKeyInput, openaiApiKeyInput, aiReq, activeTab,
                     loaded, dom, exec>>

\* AnalyzeReturns of a client that sends the request once more when it has
\* failed
AnalyzeReturnsRetry(c) ==
  LET resp == req[c].resp
      ex == IF resp.success THEN Decode(aiReq[c][Len(aiReq[c])].provider, resp.text)
            ELSE [ok |-> FALSE, actions |-> <<>>, error |-> resp.error]
  IN  /\ pc[c] = "analyze"
      /\ req[c].stage = "response"
      /\ IF ~resp.success /\ Len(aiReq[c]) < 2
         THEN /\ aiReq' = [aiReq EXCEPT ![c] = Append(@, aiReq[c][Len(aiReq[c])])]
              /\ req' = [req EXCEPT ![c] = [NoReq EXCEPT !.type = "AI", !.stage = "backend"]]
              /\ UNCHANGED <<chat, trace, pc, sendBtnDisabled, statusHidden,
                             context, actions, results>>
         ELSE IF ~ex.ok
         THEN /\ chat' = [chat EXCEPT ![c] =
                   Append(@, <<"error", "Error", ex.error>>)]
              /\ Finish(c)
              /\ req' = [req EXCEPT ![c] = NoReq]
              /\ UNCHANGED <<trace, aiReq>>
         ELSE IF Len(ex.actions) = 0
         THEN /\ chat' = [chat EXCEPT ![c] = Append(@, <<"assistant", "no actions">>)]
              /\ Finish(c)
              /\ req' = [req EXCEPT ![c] = NoReq]
              /\ UNCHANGED <<trace, aiReq>>
         ELSE /\ chat' = [chat EXCEPT ![c] = Append(@, <<"assistant", "plan", Len(ex.actions)>>)]
              /\ actions' = [actions EXCEPT ![c] = ex.actions]
              /\ statusHidden' = FALSE
              /\ SendMessage(c, "EXECUTE_ACTIONS", ex.actions)
              /\ pc' = [pc EXCEPT ![c] = "executeActions"]
              /\ UNCHANGED <<sendBtnDisabled, context, results, aiReq>>
      /\ UNCHANGED <<commandInput, aiClient, currentProvider, providerSelect,
                     claudeApiKeyInput, openaiApiKeyInput, activeTab,
                     loaded, dom, exec>>

\* AnalyzeReturns without the test for an empty action list
AnalyzeReturnsNoEmptyCheck(c) ==
  LET resp == req[c].resp
      ex == IF resp.success THEN Decode(aiReq[c][Len(aiReq[c])].provider, resp.text)
            ELSE [ok |-> FALSE, actions |-> <<>>, error |-> resp.error]
  IN  /\ pc[c] = "analyze"
      /\ req[c].stage = "response"
      /\ IF ~ex.ok
         THEN /\ chat' = [chat EXCEPT ![c] =
                   Append(@, <<"error", "Error", ex.error>>)]
              /\ Finish(c)
              /\ req' = [req EXCEPT ![c] = NoReq]
              /\ UNCHANGED trace
         ELSE /\ chat' = [chat EXCEPT ![c] = Append(@, <<"assistant", "plan", Len(ex.actions)>>)]
              /\ actions' = [actions EXCEPT ![c] = ex.actions]
              /\ statusHidden' = FALSE
              /\ SendMessage(c, "EXECUTE_ACTIONS", ex.actions)
              /\ pc' = [pc EXCEPT ![c] = "executeActions"]
              /\ UNCHANGED <<sendBtnDisabled, context, results>>
      /\ UNCHANGED <<commandInput, aiClient, currentProvider, providerSelect,
                     claudeApiKeyInput, openaiApiKeyInput, aiReq, activeTab,
                     loaded, dom, exec>>

\* analyzePageAndGetActions resumes: it rethrows a failure and the catch
\* block of handleSendCommand reports it; else extractActions decodes the
\* text and handleSendCommand goes on up to executeActions
AnalyzeReturns(c) ==
  LET resp == req[c].resp
      ex == IF resp.success THEN Decode(aiReq[c][Len(aiReq[c])].provider, resp.text)
            ELSE [ok |-> FALSE, actions |-> <<>>, error |-> resp.error]
  IN  /\ pc[c] = "analyze"
      /\ req[c].stage = "response"
      /\ IF ~ex.ok
         THEN /\ chat' = [chat EXCEPT ![c] =
                   Append(@, <<"error", "Error", ex.error>>)]
              /\ Finish(c)
              /\ req' = [req EXCEPT ![c] = NoReq]
              /\ UNCHANGED trace
         ELSE IF Len(ex.actions) = 0
         THEN /\ chat' = [chat EXCEPT ![c] = Append(@, <<"assistant", "no actions">>)]
              /\ Finish(c)
              /\ req' = [req EXCEPT ![c] = NoReq]
              /\ UNCHANGED trace
         ELSE /\ chat' = [chat EXCEPT ![c] = Append(@, <<"assistant", "plan", Len(ex.actions)>>)]
              /\ actions' = [actions EXCEPT ![c] = ex.actions]
              /\ statusHidden' = FALSE
              /\ SendMessage(c, "EXECUTE_ACTIONS", ex.actions)
              /\ pc' = [pc EXCEPT ![c] = "executeActions"]
              /\ UNCHANGED <<sendBtnDisabled, context, results>>
      /\ UNCHANGED <<commandInput, aiClient, currentProvider, providerSelect,
                     claudeApiKeyInput, openaiApiKeyInput, aiReq, activeTab,
                     loaded, dom, exec>>

\* SuccessCount that counts every result
SuccessCountAll(res) == Len(res)

\* results.filter(r => r.success).length
SuccessCount(res) == Cardinality({ i \in 1..Len(res) : res[i].success })

\* the result message of step 5
Summary(res) ==
  LET failed == SeqOfSet({ i \in 1..Len(res) : ~res[i].success })
  IN  <<"assistant", "result",
        [completed |-> SuccessCount(res),
         of |-> Len(res),
         failed |-> [k \in 1..Len(failed) |-> res[failed[k]]],
         allOk |-> ~(Len(res) - SuccessCount(res) > 0)]>>

\* ExecuteActionsReturns that asks the backend for a new plan when an
\* action of the batch has failed
ExecuteActionsReturnsReplan(c) ==
  LET resp == req[c].resp
      res == IF resp.success THEN resp.results ELSE <<>>
      shown == IF resp.success THEN chat[c]
               ELSE Append(chat[c], <<"error", "Failed to execute actions", resp.error>>)
  IN  /\ pc[c] = "executeActions"
      /\ req[c].stage = "response"
      /\ results' = [results EXCEPT ![c] = res]
      /\ chat' = [chat EXCEPT ![c] = Append(shown, Summary(res))]
      /\ exec' = [exec EXCEPT ![c] = NoExec]
      /\ IF SuccessCount(res) < Len(res)
         THEN /\ req' = [req EXCEPT ![c] = [NoReq EXCEPT !.type = "AI", !.stage = "backend"]]
              /\ trace' = [trace EXCEPT ![c] = Append(@, "AI")]
              /\ pc' = [pc EXCEPT ![c] = "analyze"]
         ELSE /\ req' = [req EXCEPT ![c] = NoReq]
              /\ pc' = [pc EXCEPT ![c] = "saveChatHistory"]
              /\ UNCHANGED trace
      /\ UNCHANGED <<uiVars, context, actions, aiReq, activeTab, loaded, dom>>

\* executeActions (side panel) resumes with the response; handleSendCommand
\* shows the results and awaits saveChatHistory.  The invocation of
\* executeActions in the content script has ended by then.
ExecuteActionsReturns(c) ==
  LET resp == req[c].resp
      res == IF resp.success THEN resp.results ELSE <<>>
      shown == IF resp.success THEN chat[c]
               ELSE Append(chat[c], <<"error", "Failed to execute actions", resp.error>>)
  IN  /\ pc[c] = "executeActions"
      /\ req[c].stage = "response"
      /\ results' = [results EXCEPT ![c] = res]
      /\ chat' = [chat EXCEPT ![c] = Append(shown, Summary(res))]
      /\ req' = [req EXCEPT ![c] = NoReq]
      /\ exec' = [exec EXCEPT ![c] = NoExec]
      /\ pc' = [pc EXCEPT ![c] = "saveChatHistory"]
      /\ UNCHANGED <<uiVars, context, actions, trace, aiReq, activeTab,
                     loaded, dom>>

\* saveChatHistory resolves and the finally block runs
SaveChatHistoryReturns(c) ==
  /\ pc[c] = "saveChatHistory"
  /\ Finish(c)
  /\ UNCHANGED <<commandInput, aiClient, currentProvider, providerSelect,
                 claudeApiKeyInput, openaiApiKeyInput, chat, trace, aiReq,
                 req, activeTab, loaded, dom, exec>>

\* ------------------------------------------------------------------------
\* Specifications
\* ------------------------------------------------------------------------
Next ==
  \/ \E text \in CommandTexts : TypeCommand(text)
  \/ SaveSettings
  \/ \E c \in Cmds : SendClick(c)
  \/ \E c \in Cmds : EnterKey(c)
  \/ \E c \in Cmds : BgRelay(c)
  \/ \E c \in Cmds : BgCaptureScreenshot(c)
  \/ \E c \in Cmds : ContentGetPageContext(c)
  \/ \E c \in Cmds : ContentExecuteActions(c)
  \/ \E c \in Cmds : WaitTimerFires(c)
  \/ \E c \in Cmds : DelayTimerFires(c)
  \/ \E c \in Cmds : GetPageContextReturns(c)
  \/ \E c \in Cmds : CaptureScreenshotReturns(c)
  \/ \E c \in Cmds, text \in Replies : AiResponds(c, text)
  \/ \E c \in Cmds, error \in {"transport", "no text"} : AiFails(c, error)
  \/ \E c \in Cmds : AnalyzeReturns(c)
  \/ \E c \in Cmds : ExecuteActionsReturns(c)
  \/ \E c \in Cmds : SaveChatHistoryReturns(c)

Spec == Init /\ [][Next]_vars

\* The executor alone: the content script of the web page has received an
\* EXECUTE_ACTIONS message of command 1 that carries any action list.
InitExecWith(l) ==
  /\ commandInput = ""
  /\ sendBtnDisabled = TRUE
  /\ statusHidden = FALSE
  /\ aiClient = [provider |-> "claude", apiKey |-> "sk-ant-1"]
  /\ currentProvider = "claude"
  /\ providerSelect = "claude"
  /\ claudeApiKeyInput = "sk-ant-1"
  /\ openaiApiKeyInput = "sk-1"
  /\ pc = [c \in Cmds |-> IF c = 1 THEN "executeActions" ELSE "idle"]
  /\ context = [c \in Cmds |-> IF c = 1 THEN <<extractPageContext(DemoPage)>> ELSE <<>>]
  /\ actions = [c \in Cmds |-> IF c = 1 THEN l ELSE <<>>]
  /\ results = [c \in Cmds |-> <<>>]
  /\ chat = [c \in Cmds |-> IF c = 1 THEN << <<"user">>, <<"assistant", "plan", Len(l)>> >> ELSE <<>>]
  /\ trace = [c \in Cmds |-> IF c = 1
                THEN <<"GET_PAGE_CONTEXT", "CAPTURE_SCREENSHOT", "AI", "EXECUTE_ACTIONS">>
                ELSE <<>>]
  /\ aiReq = [c \in Cmds |-> IF c = 1
                THEN << [provider |-> "claude", apiKey |-> "sk-ant-1", image |-> FALSE] >>
                ELSE <<>>]
  /\ req = [c \in Cmds |-> IF c = 1
              THEN [NoReq EXCEPT !.type = "EXECUTE_ACTIONS", !.stage = "content",
                                 !.tab = "web", !.data = l]
              ELSE NoReq]
  /\ activeTab = "web"
  /\ loaded = [t \in TabIds |-> t = "web"]
  /\ dom = [t \in TabIds |-> TabInfo[t].page]
  /\ exec = [c \in Cmds |-> NoExec]

InitExec == \E l \in ActionLists : InitExecWith(l)

NextExec ==
  \/ \E c \in Cmds : ContentExecuteActions(c)
  \/ \E c \in Cmds : WaitTimerFires(c)
  \/ \E c \in Cmds : DelayTimerFires(c)

SpecExec == InitExec /\ [][NextExec]_vars

\* the executor with a browser that delivers every message and fires every
\* timeout
SpecExecFair ==
  /\ \E l \in FairLists : InitExecWith(l)
  /\ [][NextExec]_vars
  /\ WF_vars(NextExec)

\* The planning step alone: analyzePageAndGetActions of command 1 has
\* received any reply text; the command runs on from there.
InitPlan ==
  \E text \in PlanTexts, p \in Providers :
    /\ commandInput = ""
    /\ sendBtnDisabled = TRUE
    /\ statusHidden = FALSE
    /\ aiClient = createAIClient(p, IF p = "claude" THEN "sk-ant-1" ELSE "sk-1")
    /\ currentProvider = p
    /\ providerSelect = p
    /\ claudeApiKeyInput = "sk-ant-1"
    /\ openaiApiKeyInput = "sk-1"
    /\ pc = [c \in Cmds |-> IF c = 1 THEN "analyze" ELSE "idle"]
    /\ context = [c \in Cmds |->
                   IF c = 1
                   THEN << [extractPageContext(DemoPage) EXCEPT !.screenshot = "png"] >>
                   ELSE <<>>]
    /\ actions = [c \in Cmds |-> <<>>]
    /\ results = [c \in Cmds |-> <<>>]
    /\ chat = [c \in Cmds |-> IF c = 1 THEN << <<"user">> >> ELSE <<>>]
    /\ trace = [c \in Cmds |-> IF c = 1
                  THEN <<"GET_PAGE_CONTEXT", "CAPTURE_SCREENSHOT", "AI">>
                  ELSE <<>>]
    /\ aiReq = [c \in Cmds |-> IF c = 1
                  THEN << [provider |-> p,
                           apiKey |-> IF p = "claude" THEN "sk-ant-1" ELSE "sk-1",
                           image |-> TRUE] >>
                  ELSE <<>>]
    /\ req = [c \in Cmds |-> IF c = 1
                THEN [NoReq EXCEPT !.type = "AI", !.stage = "response",
                                   !.resp = [NoResp EXCEPT !.success = TRUE,
                                                           !.text = text]]
                ELSE NoReq]
    /\ activeTab = "web"
    /\ loaded = [t \in TabIds |-> t = "web"]
    /\ dom = [t \in TabIds |-> TabInfo[t].page]
    /\ exec = [c \in Cmds |-> NoExec]

NextPlan ==
  \/ \E c \in Cmds : AnalyzeReturns(c)
  \/ \E c \in Cmds : BgRelay(c)
  \/ \E c \in Cmds : ContentExecuteActions(c)
  \/ \E c \in Cmds : WaitTimerFires(c)
  \/ \E c \in Cmds : DelayTimerFires(c)
  \/ \E c \in Cmds : ExecuteActionsReturns(c)
  \/ \E c \in Cmds : SaveChatHistoryReturns(c)

SpecPlan == InitPlan /\ [][NextPlan]_vars

\* The observer alone: every command has been submitted and its
\* GET_PAGE_CONTEXT message has been forwarded to the content script of
\* the web page, which shows any page.
InitObserve ==
  \E page \in Pages :
    /\ commandInput = ""
    /\ sendBtnDisabled = TRUE
    /\ statusHidden = FALSE
    /\ aiClient = [provider |-> "claude", apiKey |-> "sk-ant-1"]
    /\ currentProvider = "claude"
    /\ providerSelect = "claude"
    /\ claudeApiKeyInput = "sk-ant-1"
    /\ openaiApiKeyInput = "sk-1"
    /\ pc = [c \in Cmds |-> "getPageContext"]
    /\ context = [c \in Cmds |-> <<>>]
    /\ actions = [c \in Cmds |-> <<>>]
    /\ results = [c \in Cmds |-> <<>>]
    /\ chat = [c \in Cmds |-> << <<"user">> >>]
    /\ trace = [c \in Cmds |-> <<"GET_PAGE_CONTEXT">>]
    /\ aiReq = [c \in Cmds |-> <<>>]
    /\ req = [c \in Cmds |-> [NoReq EXCEPT !.type = "GET_PAGE_CONTEXT",
                                           !.stage = "content", !.tab = "web"]]
    /\ activeTab = "web"
    /\ loaded = [t \in TabIds |-> t = "web"]
    /\ dom = [t \in TabIds |-> IF t = "web" THEN page ELSE <<>>]
    /\ exec = [c \in Cmds |-> NoExec]

NextObserve == \E c \in Cmds : ContentGetPageContext(c)

SpecObserve == InitObserve /\ [][NextObserve]_vars

\* The relay with a user who switches tabs: command 1 has been submitted
\* and its GET_PAGE_CONTEXT message is on its way to the background.
InitRelay ==
  /\ commandInput = ""
  /\ sendBtnDisabled = TRUE
  /\ statusHidden = FALSE
  /\ aiClient = [provider |-> "claude", apiKey |-> "sk-ant-1"]
  /\ currentProvider = "claude"
  /\ providerSelect = "claude"
  /\ claudeApiKeyInput = "sk-ant-1"
  /\ openaiApiKeyInput = "sk-1"
  /\ pc = [c \in Cmds |-> IF c = 1 THEN "getPageContext" ELSE "idle"]
  /\ context = [c \in Cmds |-> <<>>]
  /\ actions = [c \in Cmds |-> <<>>]
  /\ results = [c \in Cmds |-> <<>>]
  /\ chat = [c \in Cmds |-> IF c = 1 THEN << <<"user">> >> ELSE <<>>]
  /\ trace = [c \in Cmds |-> IF c = 1 THEN <<"GET_PAGE_CONTEXT">> ELSE <<>>]
  /\ aiReq = [c \in Cmds |-> <<>>]
  /\ req = [c \in Cmds |-> IF c = 1
              THEN [NoReq EXCEPT !.type = "GET_PAGE_CONTEXT", !.stage = "background"]
              ELSE NoReq]
  /\ activeTab \in TabIds \cup {"none"}
  /\ loaded = [t \in TabIds |-> FALSE]
  /\ dom = [t \in TabIds |-> TabInfo[t].page]
  /\ exec = [c \in Cmds |-> NoExec]

NextRelay ==
  \/ \E t \in TabIds \cup {"none"} : ActivateTab(t)
  \/ \E c \in Cmds : ForwardFails(c)
  \/ \E c \in Cmds : BgRelay(c)
  \/ \E c \in Cmds : BgCaptureScreenshot(c)
  \/ \E c \in Cmds : ContentGetPageContext(c)
  \/ \E c \in Cmds : ContentExecuteActions(c)
  \/ \E c \in Cmds : WaitTimerFires(c)
  \/ \E c \in Cmds : DelayTimerFires(c)
  \/ \E c \in Cmds : GetPageContextReturns(c)
  \/ \E c \in Cmds : CaptureScreenshotReturns(c)
  \/ \E c \in Cmds, text \in Replies : AiResponds(c, text)
  \/ \E c \in Cmds, error \in {"transport", "no text"} : AiFails(c, error)
  \/ \E c \in Cmds : AnalyzeReturns(c)
  \/ \E c \in Cmds : ExecuteActionsReturns(c)
  \/ \E c \in Cmds : SaveChatHistoryReturns(c)

SpecRelay == InitRelay /\ [][NextRelay]_vars

\* the steps of the background and of the content script
RelaySteps ==
  \E c \in Cmds :
    \/ BgRelay(c)
    \/ BgCaptureScreenshot(c)
    \/ ContentGetPageContext(c)
    \/ ContentExecuteActions(c)
    \/ WaitTimerFires(c)
    \/ DelayTimerFires(c)

\* the relay with a browser that runs every callback and fires every
\* timeout
SpecRelayFair == SpecRelay /\ WF_vars(RelaySteps)

\* the steps of the background, of the content script, of the AI backend
\* and of the side panel
PipelineSteps ==
  \/ RelaySteps
  \/ \E c \in Cmds : GetPageContextReturns(c)
  \/ \E c \in Cmds : CaptureScreenshotReturns(c)
  \/ \E c \in Cmds, text \in Replies : AiResponds(c, text)
  \/ \E c \in Cmds, error \in {"transport", "no text"} : AiFails(c, error)
  \/ \E c \in Cmds : AnalyzeReturns(c)
  \/ \E c \in Cmds : ExecuteActionsReturns(c)
  \/ \E c \in Cmds : SaveChatHistoryReturns(c)

NextPipeline ==
  \/ \E text \in CommandTexts : TypeCommand(text)
  \/ \E c \in Cmds : ForwardFails(c)
  \/ PipelineSteps

\* the pipeline of command 1 with a browser and a backend that answer
\* every request; the user stays in the tab and may type the next command
SpecPipelineFair ==
  /\ InitRelay
  /\ [][NextPipeline]_vars
  /\ WF_vars(PipelineSteps)

\* The settings: the side panel has run init() on any stored settings and
\* the user works in the settings panel.
InitSettings ==
  \E sp \in StoredProviders, ck \in StoredClaudeKeys, ok \in StoredOpenaiKeys :
    LET provider == IF sp # "" THEN sp ELSE "claude"
        apiKey == IF provider = "claude" THEN ck ELSE ok
    IN  /\ commandInput = ""
        /\ sendBtnDisabled = (apiKey = "")
        /\ statusHidden = TRUE
        /\ aiClient = IF apiKey # "" THEN createAIClient(provider, apiKey)
                      ELSE NullClient
        /\ currentProvider = provider
        /\ providerSelect = provider
        /\ claudeApiKeyInput = ck
        /\ openaiApiKeyInput = ok
        /\ pc = [c \in Cmds |-> "idle"]
        /\ context = [c \in Cmds |-> <<>>]
        /\ actions = [c \in Cmds |-> <<>>]
        /\ results = [c \in Cmds |-> <<>>]
        /\ chat = [c \in Cmds |-> <<>>]
        /\ trace = [c \in Cmds |-> <<>>]
        /\ aiReq = [c \in Cmds |-> <<>>]
        /\ req = [c \in Cmds |-> NoReq]
        /\ activeTab = "web"
        /\ loaded = [t \in TabIds |-> FALSE]
        /\ dom = [t \in TabIds |-> TabInfo[t].page]
        /\ exec = [c \in Cmds |-> NoExec]

NextSettings ==
  \/ \E p \in Providers : SelectProvider(p)
  \/ \E k \in Keys : EditClaudeKey(k)
  \/ \E k \in Keys : EditOpenaiKey(k)
  \/ SaveSettings

SpecSettings == InitSettings /\ [][NextSettings]_vars

\* ------------------------------------------------------------------------
\* Properties
\* ------------------------------------------------------------------------
Last(s) == s[Len(s)]
Range(s) == { s[k] : k \in 1..Len(s) }
IsPrefix(s, t) == Len(s) <= Len(t) /\ \A k \in 1..Len(s) : s[k] = t[k]

\* a step of the invocation of command c that pushes a result
Pushes(c) == Len(exec'[c].results) = Len(exec[c].results) + 1
\* the action of the result pushed and the page it was applied to
PushedAction(c) == exec'[c].actions[Len(exec'[c].results)]
PageBefore(c) == dom[exec'[c].tab]

\* C1: executeActions attempts the actions strictly in list order; once an
\* action has produced a result with success = false, no later action is
\* attempted and no later result appears in the list that is returned.
C1_InOrderStopAtFailure ==
  \A c \in Cmds :
    LET e == exec[c] IN
    /\ \A k \in 1..Len(e.attempts) : e.attempts[k] = k
    /\ Len(e.results) <= Len(e.attempts)
    /\ \A k \in 1..Len(e.results) :
         ~e.results[k].success => Len(e.attempts) = k /\ Len(e.results) = k
    /\ (req[c].type = "EXECUTE_ACTIONS" /\ req[c].stage = "response")
         => req[c].resp.results = e.results

\* a batch of two actions that has stopped at the failure of the first
C1_Witness ==
  \E c \in Cmds :
    /\ exec[c].pc = "done"
    /\ Len(exec[c].actions) = 2
    /\ exec[c].attempts = <<1>>
    /\ Len(exec[c].results) = 1
    /\ ~exec[c].results[1].success

\* C2: the result list is not longer than the input, and it is shorter if
\* and only if an action that is not the last one of the list has failed.
C2_LengthOfResults ==
  \A c \in Cmds :
    exec[c].pc = "done" =>
      LET n == Len(exec[c].actions)
          res == req[c].resp.results
      IN  /\ Len(res) <= n
          /\ (Len(res) < n) <=> (\E k \in 1..Len(res) : k < n /\ ~res[k].success)

\* a returned list that is shorter than the input
C2_Witness ==
  \E c \in Cmds :
    /\ exec[c].pc = "done"
    /\ req[c].stage = "response"
    /\ Len(req[c].resp.results) < Len(exec[c].actions)

\* C3: the result list is aligned with a prefix of the input, and every
\* result except possibly the last one is a success.
C3_AlignedWithPrefix ==
  \A c \in Cmds :
    LET e == exec[c] IN
    \A k \in 1..Len(e.results) :
      /\ k <= Len(e.actions)
      /\ e.results[k].action = e.actions[k]
      /\ k < Len(e.results) => e.results[k].success

\* a success followed by a failure, both returned
C3_Witness ==
  \E c \in Cmds :
    /\ exec[c].pc = "done"
    /\ Len(exec[c].results) = 2
    /\ exec[c].results[1].success
    /\ ~exec[c].results[2].success
    /\ exec[c].actions[1] # exec[c].actions[2]

InFlight(c) == pc[c] \notin {"idle", "done"}

\* C4: at most one command is in flight at any time.
C4_OneCommandInFlight ==
  Cardinality({ c \in Cmds : InFlight(c) }) <= 1

\* handleSendCommand of command c resumes from its await
Resumes(c) == pc'[c] # pc[c]
ObservationFails(c) ==
  /\ pc[c] = "getPageContext"
  /\ req[c].stage = "response"
  /\ ~req[c].resp.success
PlanningFails(c) ==
  /\ pc[c] = "analyze"
  /\ req[c].stage = "response"
  /\ \/ ~req[c].resp.success
     \/ JsonMatch(req[c].resp.text) = <<>>
     \/ ~IsJsonArray(JsonMatch(req[c].resp.text))

\* C5: when the observation or the planning fails, the command ends with an
\* error message and sends no EXECUTE_ACTIONS request; when the observation
\* fails it sends no request to the AI backend either.  A command that has
\* ended sends nothing more.
C5_FailureEndsCommand ==
  [][\A c \in Cmds :
       /\ (ObservationFails(c) /\ Resumes(c)) =>
            /\ pc'[c] = "done"
            /\ Len(chat'[c]) = Len(chat[c]) + 1
            /\ Last(chat'[c])[1] = "error"
            /\ trace'[c] = <<"GET_PAGE_CONTEXT">>
            /\ aiReq'[c] = <<>>
       /\ (PlanningFails(c) /\ Resumes(c)) =>
            /\ pc'[c] = "done"
            /\ Len(chat'[c]) = Len(chat[c]) + 1
            /\ Last(chat'[c])[1] = "error"
            /\ "EXECUTE_ACTIONS" \notin Range(trace'[c])
       /\ pc[c] = "done" =>
            /\ pc'[c] = "done"
            /\ trace'[c] = trace[c]
            /\ aiReq'[c] = aiReq[c]
            /\ req'[c] = NoReq
    ]_vars

\* a command that has ended with the error of a reply that does not decode
C5_Witness ==
  \E c \in Cmds :
    /\ pc[c] = "done"
    /\ Last(chat[c]) = <<"error", "Error", "parse">>
    /\ trace[c] = <<"GET_PAGE_CONTEXT", "CAPTURE_SCREENSHOT", "AI">>

\* the reply of the backend holds the empty array
EmptyPlan(c) ==
  /\ pc[c] = "analyze"
  /\ req[c].stage = "response"
  /\ req[c].resp.success
  /\ JsonMatch(req[c].resp.text) = << <<"[">>, <<"]">> >>

\* C6: when the planner returns an empty action list, the command reports
\* that there is nothing to do and the executor is never invoked for it.
C6_EmptyPlanNotExecuted ==
  [][\A c \in Cmds :
       /\ (EmptyPlan(c) /\ Resumes(c)) =>
            /\ pc'[c] = "done"
            /\ Last(chat'[c]) = <<"assistant", "no actions">>
            /\ "EXECUTE_ACTIONS" \notin Range(trace'[c])
            /\ exec'[c] = NoExec
       /\ (pc[c] = "done" /\ "EXECUTE_ACTIONS" \notin Range(trace[c])) =>
            /\ "EXECUTE_ACTIONS" \notin Range(trace'[c])
            /\ exec'[c] = NoExec
    ]_vars

\* a command that has ended with the report of an empty plan
C6_Witness ==
  \E c \in Cmds :
    /\ pc[c] = "done"
    /\ Last(chat[c]) = <<"assistant", "no actions">>
    /\ trace[c] = <<"GET_PAGE_CONTEXT", "CAPTURE_SCREENSHOT", "AI">>
    /\ exec[c] = NoExec

\* C7: a command issues its requests in the order observe, capture
\* screenshot, plan, execute, each at most once: the AI backend is asked
\* once and never again during or after the execution.
C7_OrderOfSteps ==
  \A c \in Cmds :
    IsPrefix(trace[c], <<"GET_PAGE_CONTEXT", "CAPTURE_SCREENSHOT", "AI",
                         "EXECUTE_ACTIONS">>)

\* a command that has executed a batch in which an action failed
C7_Witness ==
  \E c \in Cmds :
    /\ pc[c] = "done"
    /\ trace[c] = <<"GET_PAGE_CONTEXT", "CAPTURE_SCREENSHOT", "AI",
                    "EXECUTE_ACTIONS">>
    /\ \E m \in Range(chat[c]) : m[1] = "assistant" /\ m[2] = "result" /\ ~m[3].allOk

\* C8: an action whose type is outside click, fill and wait yields a
\* failure result whose error names the type, for every selector (it is
\* stated here for the valid selectors, resolving or not), and halts the
\* batch.
C8_UnknownTypeNamed ==
  \A c \in Cmds :
    LET e == exec[c] IN
    \A k \in 1..Len(e.results) :
      (/\ e.results[k].action.type \notin {"click", "fill", "wait"}
       /\ IsValidSelector(e.results[k].action.selector)) =>
        /\ ~e.results[k].success
        /\ e.results[k].error = <<"Unknown action type", e.results[k].action.type>>
        /\ k = Len(e.results)
        /\ e.pc = "done"

\* C9: a click or fill whose selector matches no element of the page yields
\* the failure 'Element not found: <selector>' and ends the batch: the list
\* is returned with this result as its last one.
C9_ElementNotFound ==
  [][\A c \in Cmds :
       (/\ Pushes(c)
        /\ PushedAction(c).type \in {"click", "fill"}
        /\ IsValidSelector(PushedAction(c).selector)
        /\ querySelectorAll(PageBefore(c), PushedAction(c).selector) = {}) =>
         /\ Last(exec'[c].results) =
              [success |-> FALSE, action |-> PushedAction(c),
               error |-> <<"Element not found", PushedAction(c).selector>>]
         /\ exec'[c].pc = "done"
         /\ req'[c].stage = "response"
         /\ req'[c].resp.success
         /\ req'[c].resp.results = exec'[c].results
    ]_vars

\* a batch that has stopped before its end at a selector that did not resolve
C9_Witness ==
  \E c \in Cmds :
    /\ exec[c].pc = "done"
    /\ Len(exec[c].results) < Len(exec[c].actions)
    /\ Last(exec[c].results).error[1] = "Element not found"

\* a text input or a textarea
IsTextField(el) ==
  \/ el.tag = "input" /\ el.type = "text"
  \/ el.tag = "textarea"

\* C10: a fill whose selector resolves to an element that is no text input
\* and no textarea yields a failure, leaves the value of the element
\* unchanged and halts the batch.
C10_FillNeedsTextField ==
  [][\A c \in Cmds :
       LET i == querySelector(PageBefore(c), PushedAction(c).selector) IN
       (/\ Pushes(c)
        /\ PushedAction(c).type = "fill"
        /\ IsValidSelector(PushedAction(c).selector)
        /\ i # 0
        /\ ~IsTextField(PageBefore(c)[i])) =>
         /\ ~Last(exec'[c].results).success
         /\ dom'[exec'[c].tab][i].value = PageBefore(c)[i].value
         /\ exec'[c].pc = "done"
    ]_vars

\* ------------------------------------------------------------------------
\* a step in which executeAction is applied to an action whose selector
\* makes document.querySelector throw
Throws(c) ==
  /\ Len(exec'[c].attempts) = Len(exec[c].attempts) + 1
  /\ exec'[c].actions[exec'[c].i].type # "wait"
  /\ ~IsValidSelector(exec'[c].actions[exec'[c].i].selector)

\* C11: no fault raised while applying an action escapes the executor: an
\* exception inside executeAction becomes a result with success = false
\* that carries the exception's message and ends the batch, executeActions
\* never rejects, and the listener answers EXECUTE_ACTIONS with a success
\* response that carries the result list.
C11_FaultBecomesResult ==
  [][\A c \in Cmds :
       /\ Throws(c) =>
            /\ Pushes(c)
            /\ Last(exec'[c].results)
                 = Fail(PushedAction(c), <<"SyntaxError", PushedAction(c).selector>>)
            /\ exec'[c].pc = "done"
       /\ exec'[c].pc # "rejected"
       /\ (exec[c].pc # "done" /\ exec'[c].pc = "done") =>
            /\ req'[c].stage = "response"
            /\ req'[c].resp.success
            /\ req'[c].resp.results = exec'[c].results]_vars

\* the second action of a batch has thrown and the batch was answered
C11_Witness ==
  \E c \in Cmds :
    /\ exec[c].pc = "done"
    /\ Len(exec[c].results) = 2
    /\ exec[c].results[1].success
    /\ ~exec[c].results[2].success
    /\ exec[c].results[2].error[1] = "SyntaxError"
    /\ req[c].stage = "response"
    /\ req[c].resp.success
    /\ req[c].resp.results = exec[c].results

\* ------------------------------------------------------------------------
\* the step in which analyzePageAndGetActions returns or throws
Planned(c) == pc[c] = "analyze" /\ pc'[c] # "analyze"
\* the reply text it decodes
ReplyText(c) == req[c].resp.text
\* handleSendCommand has got exactly the list l from it
Returned(c, l) ==
  IF l = <<>>
  THEN pc'[c] = "done" /\ Last(chat'[c]) = <<"assistant", "no actions">>
  ELSE pc'[c] = "executeActions" /\ actions'[c] = l /\ req'[c].data = l
\* it has thrown and the catch block has reported the error
PlanError(c) == pc'[c] = "done" /\ Last(chat'[c])[1] = "error"

\* C12: for a reply with any prose before and behind one valid JSON array,
\* also prose with a '[' or a ']' in it, extractActions returns exactly
\* that array; for a reply without a bracket span it fails with an error.
C12_ExactlyThatArray ==
  [][\A c \in Cmds :
       (Planned(c) /\ req[c].resp.success) =>
         /\ \A pre \in Prose, post \in Prose, l \in PlanLists :
              ReplyText(c) = pre \o Json(l) \o post => Returned(c, l)
         /\ JsonMatch(ReplyText(c)) = <<>> => PlanError(c)
    ]_vars

\* ------------------------------------------------------------------------
\* the Action shape: a type out of click, fill and wait, and a selector for
\* a click and a fill
WellFormed(a) ==
  /\ a.type \in {"click", "fill", "wait"}
  /\ a.type \in {"click", "fill"} => a.selector # NoSelector

\* C13: every list the planning step returns holds only well-formed
\* Actions (a decoded array with another entry makes it fail), so no
\* malformed action reaches the executor.
C13_OnlyWellFormedActions ==
  \A c \in Cmds :
    /\ \A k \in 1..Len(actions[c]) : WellFormed(actions[c][k])
    /\ \A k \in 1..Len(exec[c].actions) : WellFormed(exec[c].actions[k])

\* ------------------------------------------------------------------------
\* command c has received a snapshot
HasSnapshot(c) ==
  /\ req[c].type = "GET_PAGE_CONTEXT"
  /\ req[c].stage = "response"
  /\ req[c].resp.success
\* its elements and the page it was taken from
Snapshot(c) == req[c].resp.context[1].elements
ObservedPage(c) == dom[req[c].tab]

\* the computed style of the element shows it
Shown(el) == el.display # "none" /\ el.visibility # "hidden" /\ el.opacity # "0"

\* the HTML elements of page d that match the interactive set and are
\* shown, as indices in document order
VisibleInteractive(d) ==
  { i \in 1..Len(d) : d[i].present /\ d[i].html /\ IsInteractive(d[i]) /\ Shown(d[i]) }

\* the k-th member of a set of indices
Nth(S, k) == CHOOSE i \in S : Cardinality({ j \in S : j <= i }) = k

C15_NoHiddenElement ==
  \A c \in Cmds :
    HasSnapshot(c) =>
      \A k \in 1..Len(Snapshot(c)) :
        \E i \in 1..Len(ObservedPage(c)) :
          /\ Shown(ObservedPage(c)[i])
          /\ Descriptor(ObservedPage(c), i) = Snapshot(c)[k]

\* a snapshot with a descriptor in it, of a page with two interactive
\* elements that are hidden in different ways
C15_Witness ==
  \E c \in Cmds :
    /\ HasSnapshot(c)
    /\ Len(Snapshot(c)) >= 1
    /\ \E i, j \in 1..Len(ObservedPage(c)) :
         /\ IsInteractive(ObservedPage(c)[i]) /\ ObservedPage(c)[i].html
         /\ IsInteractive(ObservedPage(c)[j]) /\ ObservedPage(c)[j].html
         /\ ObservedPage(c)[i].display = "none"
         /\ (ObservedPage(c)[j].visibility = "hidden" \/ ObservedPage(c)[j].opacity = "0")

\* C16: for an element with a non-empty id getSelector returns '#<id>'
\* whatever its name, classes, placeholder and position are; for an element
\* without id and with a non-empty name attribute it returns
\* '[name="<name>"]'.
C16_IdThenName ==
  \A c \in Cmds :
    HasSnapshot(c) =>
      \A k \in 1..Len(Snapshot(c)) :
        LET el == ObservedPage(c)[Nth(VisibleInteractive(ObservedPage(c)), k)]
        IN  /\ el.id # "" => Snapshot(c)[k].selector = <<"#", el.id>>
            /\ (el.id = "" /\ el.name # "") =>
                 Snapshot(c)[k].selector = <<"name", el.name>>

\* a snapshot of an element with id, name, class and placeholder that is
\* not the first of the page, and of an element with a name and no id
C16_Witness ==
  \E c \in Cmds :
    /\ HasSnapshot(c)
    /\ \E k, m \in 1..Len(Snapshot(c)) :
         LET vi == VisibleInteractive(ObservedPage(c))
             el == ObservedPage(c)[Nth(vi, k)]
             other == ObservedPage(c)[Nth(vi, m)]
         IN  /\ k > 1
             /\ el.id # "" /\ el.name # "" /\ el.classes # {} /\ el.placeholder # ""
             /\ Snapshot(c)[k].selector = <<"#", el.id>>
             /\ other.id = "" /\ other.name # ""
             /\ Snapshot(c)[m].selector = <<"name", other.name>>

UniqueIdsAndNames(d) ==
  \A i, j \in 1..Len(d) :
    i # j => /\ d[i].id # "" => d[i].id # d[j].id
             /\ d[i].name # "" => d[i].name # d[j].name

\* C18: the selector of a descriptor of a snapshot, resolved against the
\* unmodified page by document.querySelector, yields the element the
\* descriptor was built from or no element, never another element (stated
\* for the pages whose ids and names are unique).
C18_ResolvesToSameElement ==
  \A c \in Cmds :
    (HasSnapshot(c) /\ UniqueIdsAndNames(ObservedPage(c))) =>
      \A k \in 1..Len(Snapshot(c)) :
        querySelector(ObservedPage(c), Snapshot(c)[k].selector)
          \in {0, Nth(VisibleInteractive(ObservedPage(c)), k)}

\* ------------------------------------------------------------------------
\* the step in which the relay deals with the request of command c
Relays(c) ==
  /\ req[c].stage = "background"
  /\ req[c].type \in {"GET_PAGE_CONTEXT", "EXECUTE_ACTIONS"}
  /\ req'[c] # req[c]
\* the content script cannot be reached on tab t
Unreachable(t) ==
  \/ TabInfo[t].restricted
  \/ ~loaded[t] /\ ~TabInfo[t].injectable

\* C19: when the active tab is a privileged or restricted page, or its
\* listener can neither be pinged nor injected, a GET_PAGE_CONTEXT or
\* EXECUTE_ACTIONS request is answered with success = false and an error
\* text, it is never forwarded to the page, and no snapshot comes back.
C19_RestrictedPageFailsFast ==
  [][\A c \in Cmds :
       (Relays(c) /\ activeTab \in TabIds /\ Unreachable(activeTab)) =>
         /\ req'[c].stage = "response"
         /\ ~req'[c].resp.success
         /\ req'[c].resp.error \in {"Cannot access this page",
                                    "Cannot inject content script"}
         /\ req'[c].resp.context = <<>>
         /\ req'[c].resp.results = <<>>
         /\ req'[c].tab = "none"
         /\ exec' = exec /\ dom' = dom
    ]_vars

\* an EXECUTE_ACTIONS request was refused for a browser system page the
\* user had switched to after the page was observed
C19_Witness ==
  \E c \in Cmds :
    /\ req[c].type = "EXECUTE_ACTIONS"
    /\ req[c].stage = "response"
    /\ ~req[c].resp.success
    /\ req[c].resp.error = "Cannot access this page"
    /\ exec[c] = NoExec

\* ------------------------------------------------------------------------
\* the milliseconds a wait action specifies
Milliseconds(a) == IF a.value = "500" THEN 500 ELSE 2000

\* C20: a wait action suspends for the duration specified for it, so two
\* wait actions with different durations suspend for different times.
C20_WaitsForSpecifiedDuration ==
  [][\A c \in Cmds :
       (/\ exec[c].pc # "waiting"
        /\ exec'[c].pc = "waiting"
        /\ exec'[c].actions[exec'[c].i].value # Undefined) =>
         Last(exec'[c].sleeps) = Milliseconds(exec'[c].actions[exec'[c].i])
    ]_vars

\* ------------------------------------------------------------------------
\* the value of the key slot of provider p
KeySlot(p) ==
  IF p = "claude" THEN Trim(claudeApiKeyInput) ELSE Trim(openaiApiKeyInput)

\* C21: an API key is only handed to the client of its own provider: init
\* and every settings save build the ClaudeClient with the value of the
\* Claude key slot and the OpenAIClient with the value of the OpenAI key
\* slot.
C21_KeyOfOwnProvider ==
  /\ aiClient # NullClient => aiClient.apiKey = KeySlot(aiClient.provider)
  /\ [][aiClient' # aiClient =>
          /\ aiClient'.provider = providerSelect
          /\ aiClient'.apiKey = KeySlot(aiClient'.provider)]_vars

\* a ClaudeClient built by a save with a key typed into the Claude slot,
\* while the OpenAI slot holds another key
C21_Witness ==
  /\ aiClient.provider = "claude"
  /\ aiClient.apiKey = "sk-ant-2"
  /\ claudeApiKeyInput = "sk-ant-2"
  /\ openaiApiKeyInput = "sk-1"
  /\ currentProvider = "claude"

\* ------------------------------------------------------------------------
\* executeAction is called with the action at index i of the list of c
Attempts(c) == Len(exec'[c].attempts) = Len(exec[c].attempts) + 1
\* the action it is called with
Attempted(c) == exec'[c].actions[exec'[c].i]

StartsDelay(c) == exec[c].pc # "delay" /\ exec'[c].pc = "delay"

\* C23: executeActions imposes the delay between consecutive actions only:
\* once after each successful action that has a successor in the list,
\* never after a failed action and never after the final action.
C23_DelayOnlyBetweenActions ==
  [][\A c \in Cmds :
       /\ StartsDelay(c) =>
            /\ Last(exec'[c].results).success
            /\ Len(exec'[c].results) < Len(exec'[c].actions)
       /\ (Pushes(c) /\ Last(exec'[c].results).success
            /\ Len(exec'[c].results) < Len(exec'[c].actions)) =>
            exec'[c].pc = "delay"
    ]_vars

\* ------------------------------------------------------------------------
\* the element of the page at the start of the batch that selector sel
\* resolved to then, 0 if none
Original(sel) == querySelector(DemoPage, sel)

\* C24: the selector of a click or fill is resolved when the action is
\* executed, against the page as the preceding actions have left it: when
\* an earlier successful action has removed the element a later action
\* targets, the later action fails with 'Element not found' and the batch
\* stops there with both results returned.
C24_ResolvedAtExecutionTime ==
  [][\A c \in Cmds :
       (/\ Pushes(c)
        /\ PushedAction(c).type \in {"click", "fill"}
        /\ IsValidSelector(PushedAction(c).selector)
        /\ Original(PushedAction(c).selector) # 0
        /\ ~PageBefore(c)[Original(PushedAction(c).selector)].present) =>
         /\ Last(exec'[c].results)
              = Fail(PushedAction(c), <<"Element not found", PushedAction(c).selector>>)
         /\ exec'[c].pc = "done"
         /\ Len(exec'[c].results) = Len(exec[c].results) + 1
         /\ req'[c].stage = "response"
         /\ req'[c].resp.results = exec'[c].results
    ]_vars

\* the click on the button has removed the text input and the fill of the
\* text input has failed
C24_Witness ==
  \E c \in Cmds :
    /\ exec[c].pc = "done"
    /\ Len(exec[c].results) = 2
    /\ exec[c].results[1] = Ok(Act("click", <<"#", "a">>, Undefined))
    /\ exec[c].results[2]
         = Fail(Act("fill", <<"#", "b">>, "v"), <<"Element not found", <<"#", "b">>>>)
    /\ req[c].resp.results = exec[c].results

\* ------------------------------------------------------------------------
\* C25: a successful fill sets the value of the element to the value of the
\* action, or to the empty string when the action has no value, and then
\* emits an input and a change notification, in that order, before it
\* reports success.
C25_FillSetsValueAndNotifies ==
  [][\A c \in Cmds :
       (/\ Pushes(c)
        /\ PushedAction(c).type = "fill"
        /\ Last(exec'[c].results).success) =>
         LET i == querySelector(PageBefore(c), PushedAction(c).selector)
         IN  /\ i # 0
             /\ dom'[exec'[c].tab][i].value
                  = IF PushedAction(c).value = Undefined THEN ""
                    ELSE PushedAction(c).value
             /\ exec'[c].events
                  = exec[c].events \o << <<i, "input">>, <<i, "change">> >>
    ]_vars

\* the text input was filled with a value and then by a fill without value
C25_Witness ==
  \E c \in Cmds :
    /\ Len(exec[c].results) = 2
    /\ exec[c].results[1] = Ok(Act("fill", <<"#", "b">>, "v"))
    /\ exec[c].results[2] = Ok(Act("fill", <<"#", "b">>, Undefined))
    /\ dom[exec[c].tab][3].value = ""
    /\ exec[c].events = << <<3, "input">>, <<3, "change">>,
                           <<3, "input">>, <<3, "change">> >>

\* ------------------------------------------------------------------------
\* a step in which a click is applied to the HTML element its selector
\* resolves to
Clicks(c) ==
  /\ Pushes(c)
  /\ PushedAction(c).type = "click"
  /\ IsValidSelector(PushedAction(c).selector)
  /\ querySelector(PageBefore(c), PushedAction(c).selector) # 0
  /\ PageBefore(c)[querySelector(PageBefore(c), PushedAction(c).selector)].html
\* the element clicked, before and after the click
Target(c) == querySelector(PageBefore(c), PushedAction(c).selector)
IsUncheckedCheckbox(el) ==
  el.tag = "input" /\ el.type = "checkbox" /\ ~el.checked

\* C26 as stated: a click on an HTML element reports success whatever the
\* kind and the disabled state of the element are, and a click on an
\* unchecked checkbox leaves it checked.
C26_ClickChecksAnyCheckbox ==
  [][\A c \in Cmds :
       Clicks(c) =>
         /\ Last(exec'[c].results) = Ok(PushedAction(c))
         /\ IsUncheckedCheckbox(PageBefore(c)[Target(c)]) =>
              dom'[exec'[c].tab][Target(c)].checked
    ]_vars

\* C26: a click on an HTML element reports success whatever the kind and
\* the disabled state of the element are; a click on an unchecked checkbox
\* that is not disabled leaves it checked, and a click on a disabled
\* element leaves the page as it is.
C26_ClickReportsSuccess ==
  [][\A c \in Cmds :
       Clicks(c) =>
         /\ Last(exec'[c].results) = Ok(PushedAction(c))
         /\ (IsUncheckedCheckbox(PageBefore(c)[Target(c)])
              /\ ~PageBefore(c)[Target(c)].disabled) =>
              dom'[exec'[c].tab][Target(c)].checked
         /\ PageBefore(c)[Target(c)].disabled => dom' = dom
    ]_vars

\* the clicks on the checkbox and on the disabled checkbox have both
\* reported success; only the first checkbox is checked
C26_Witness ==
  \E c \in Cmds :
    /\ Len(exec[c].results) = 2
    /\ exec[c].results[1] = Ok(Act("click", <<"#", "terms">>, Undefined))
    /\ exec[c].results[2] = Ok(Act("click", <<"#", "off">>, Undefined))
    /\ dom[exec[c].tab][1].checked
    /\ ~dom[exec[c].tab][6].checked

\* ------------------------------------------------------------------------
\* the page-side listener has the request of command c or is working on it
Executing(c) ==
  req[c].type = "EXECUTE_ACTIONS" /\ req[c].stage \in {"content", "executing"}
\* executeActions of command c has returned and the listener has answered
Answered(c) ==
  /\ req[c].type = "EXECUTE_ACTIONS"
  /\ req[c].stage = "response"
  /\ exec[c].pc = "done"
  /\ \/ Len(exec[c].results) = Len(exec[c].actions)
     \/ exec[c].results # <<>> /\ ~Last(exec[c].results).success

\* C27: for every finite action list executeActions terminates: it runs
\* until the first failure or until the last action has been applied, and
\* in no state does it wait forever.
C27_Terminates == \A c \in Cmds : Executing(c) ~> Answered(c)

\* a batch of two actions with a wait has run to its end
C27_Witness ==
  \E c \in Cmds :
    /\ Answered(c)
    /\ Len(exec[c].results) = 2
    /\ exec[c].results[1].action.type = "wait"
    /\ exec[c].results[2].success

\* ------------------------------------------------------------------------
\* the elements of page d with tag t and all the classes cs
WithClasses(d, t, cs) ==
  { j \in 1..Len(d) : d[j].present /\ d[j].tag = t /\ cs \subseteq d[j].classes }
\* the elements of page d with tag t and placeholder ph
WithPlaceholder(d, t, ph) ==
  { j \in 1..Len(d) : d[j].present /\ d[j].tag = t /\ d[j].placeholder = ph }

\* C28: getSelector returns a class selector or a placeholder selector only
\* if it matches exactly one element of the whole page; when the class
\* selector is not unique it goes on to the placeholder rule and then to
\* the nth-of-type fallback.
C28_ClassAndPlaceholderUnique ==
  \A c \in Cmds :
    HasSnapshot(c) =>
      \A k \in 1..Len(Snapshot(c)) :
        LET d == ObservedPage(c)
            el == d[Nth(VisibleInteractive(d), k)]
            sel == Snapshot(c)[k].selector
            byClass == WithClasses(d, el.tag, el.classes)
            byPh == WithPlaceholder(d, el.tag, el.placeholder)
        IN  /\ sel[1] = "class" =>
                 /\ sel = <<"class", el.tag, el.classes>>
                 /\ el.classes # {}
                 /\ Cardinality(byClass) = 1
            /\ sel[1] = "ph" =>
                 /\ sel = <<"ph", el.tag, el.placeholder>>
                 /\ el.placeholder # ""
                 /\ Cardinality(byPh) = 1
            /\ (el.id = "" /\ el.name = "" /\ el.classes # {}
                 /\ Cardinality(byClass) > 1) =>
                 IF el.placeholder # "" /\ Cardinality(byPh) = 1
                 THEN sel[1] = "ph"
                 ELSE sel[1] = "nth"

\* a snapshot with an element whose class selector is not unique and that
\* got the placeholder selector, and with an element that got its class
\* selector
C28_Witness ==
  \E c \in Cmds :
    /\ HasSnapshot(c)
    /\ \E k, m \in 1..Len(Snapshot(c)) :
         LET d == ObservedPage(c)
             el == d[Nth(VisibleInteractive(d), k)]
         IN  /\ el.classes # {}
             /\ Cardinality(WithClasses(d, el.tag, el.classes)) > 1
             /\ Snapshot(c)[k].selector[1] = "ph"
             /\ Snapshot(c)[m].selector[1] = "class"

\* ------------------------------------------------------------------------
\* C29: when getSelector falls back to '<tag>:nth-of-type(<n>)', n is the
\* 1-based ordinal of the element among the same-tag children of its
\* parent, so n >= 1 for every element, also for one without parent
\* element.
C29_OrdinalAtLeastOne ==
  \A c \in Cmds :
    HasSnapshot(c) =>
      \A k \in 1..Len(Snapshot(c)) :
        LET d == ObservedPage(c)
            i == Nth(VisibleInteractive(d), k)
            sel == Snapshot(c)[k].selector
        IN  sel[1] = "nth" =>
              /\ sel[3] >= 1
              /\ sel[3] = Cardinality({ j \in 1..i :
                                          /\ d[j].present
                                          /\ d[j].parent = d[i].parent
                                          /\ d[j].tag = d[i].tag })

\* ------------------------------------------------------------------------
\* the background has received the request of command c
Received(c) ==
  /\ req[c].type \in {"GET_PAGE_CONTEXT", "EXECUTE_ACTIONS", "CAPTURE_SCREENSHOT"}
  /\ req[c].stage = "background"
\* the request of command c has its response
Responded(c) ==
  /\ req[c].type \in {"GET_PAGE_CONTEXT", "EXECUTE_ACTIONS", "CAPTURE_SCREENSHOT"}
  /\ req[c].stage = "response"

\* C30: every GET_PAGE_CONTEXT, EXECUTE_ACTIONS and CAPTURE_SCREENSHOT
\* request the background receives is eventually answered, on every path,
\* and with one response: a response is not followed by another one to the
\* same request.
C30_AnsweredExactlyOnce ==
  /\ \A c \in Cmds : Received(c) ~> Responded(c)
  /\ [][\A c \in Cmds :
          Responded(c) => (req'[c] = req[c] \/ req'[c].stage # "response")]_vars

\* an EXECUTE_ACTIONS request was answered with the error of the forwarding
C30_Witness ==
  \E c \in Cmds :
    /\ req[c].type = "EXECUTE_ACTIONS"
    /\ req[c].stage = "response"
    /\ req[c].resp.error = "message port closed"

\* ------------------------------------------------------------------------
\* the backend analyzePageAndGetActions of command c was called on
Backend(c) == Last(aiReq[c]).provider
\* handleSendCommand has got from it what the decoding ex stands for
Outcome(c, ex) == IF ex.ok THEN Returned(c, ex.actions) ELSE PlanError(c)

\* C31: for every reply text that is not empty the decoding of ClaudeClient
\* and the one of OpenAIClient agree, both return the same list or both
\* fail, and what handleSendCommand gets from the backend in use is what
\* either of them gives.
C31_BackendsInterchangeable ==
  [][\A c \in Cmds :
       (Planned(c) /\ req[c].resp.success /\ ReplyText(c) # <<>>) =>
         /\ ClaudeDecode(ReplyText(c)) = OpenAIDecode(ReplyText(c))
         /\ \A p \in Providers : Outcome(c, Decode(p, ReplyText(c)))
    ]_vars

\* OpenAIClient has returned a list of two actions
C31_Witness ==
  \E c \in Cmds :
    /\ aiReq[c] # <<>>
    /\ Backend(c) = "openai"
    /\ pc[c] = "executeActions"
    /\ Len(actions[c]) = 2

\* ------------------------------------------------------------------------
\* the step in which handleSendCommand calls analyzePageAndGetActions
CallsPlan(c) == pc[c] # "analyze" /\ pc'[c] = "analyze"

\* C32: a call of analyzePageAndGetActions sends one request to the
\* backend, with an image exactly when the snapshot carries a screenshot;
\* no further request follows while the call is under way, and when the
\* request has failed the call throws that error, which the caller sees
\* unchanged.
C32_OneRequestPerCall ==
  /\ [][\A c \in Cmds :
          CallsPlan(c) =>
            /\ Len(aiReq'[c]) = Len(aiReq[c]) + 1
            /\ SubSeq(aiReq'[c], 1, Len(aiReq[c])) = aiReq[c]
            /\ Last(aiReq'[c]).image = (context'[c][1].screenshot # Undefined)
       ]_vars
  /\ [][\A c \in Cmds :
          pc[c] = "analyze" =>
            /\ aiReq'[c] = aiReq[c]
            /\ (Planned(c) /\ ~req[c].resp.success) =>
                  /\ PlanError(c)
                  /\ Last(chat'[c]) = <<"error", "Error", req[c].resp.error>>
                  /\ req'[c] = NoReq
       ]_vars

\* a request without an image has failed and the command has ended with
\* that error, after one request
C32_Witness ==
  \E c \in Cmds :
    /\ pc[c] = "done"
    /\ Len(aiReq[c]) = 1
    /\ ~aiReq[c][1].image
    /\ Last(chat[c]) = <<"error", "Error", "transport">>

\* ------------------------------------------------------------------------
\* how often a request of the type was issued for the command
Issued(c, type) == Cardinality(Positions(trace[c], type))
\* the error messages the command has put into the chat
Errors(ch) == Cardinality({ k \in 1..Len(ch) : ch[k][1] = "error" })
\* handleSendCommand resumes from a request that has failed: the snapshot,
\* the plan (also a reply that cannot be decoded) or the execution
Fault(c) ==
  /\ Resumes(c)
  /\ pc[c] \in {"getPageContext", "analyze", "executeActions"}
  /\ \/ ~req[c].resp.success
     \/ pc[c] = "analyze" /\ ~Decode(Backend(c), ReplyText(c)).ok

\* C33: nothing is retried: a command issues each of the requests for the
\* snapshot, for the plan and for the execution at most once, and each
\* fault adds exactly one error message to the chat, which no other step
\* does.
C33_NothingRetried ==
  /\ \A c \in Cmds :
       \A type \in {"GET_PAGE_CONTEXT", "AI", "EXECUTE_ACTIONS"} :
         Issued(c, type) <= 1
  /\ [][\A c \in Cmds :
          Errors(chat'[c]) = Errors(chat[c]) + (IF Fault(c) THEN 1 ELSE 0)
       ]_vars

\* the execute request of a command has failed and was reported once
C33_Witness ==
  \E c \in Cmds :
    /\ Issued(c, "EXECUTE_ACTIONS") = 1
    /\ pc[c] = "saveChatHistory"
    /\ Errors(chat[c]) = 1

\* ------------------------------------------------------------------------
\* the step in which handleSendCommand shows the result message
Summarizes(c) == pc[c] = "executeActions" /\ Resumes(c)

\* C34: in the result message of a command the succeeded count plus the
\* number of failed actions is the number of results, at most one action
\* has failed, and every failed result is listed with its error.
C34_SummaryCounts ==
  [][\A c \in Cmds :
       Summarizes(c) =>
         LET m == Last(chat'[c])[3]
             res == results'[c]
         IN  /\ m.of = Len(res)
             /\ m.completed + Len(m.failed) = Len(res)
             /\ Len(m.failed) <= 1
             /\ \A i \in 1..Len(res) :
                  ~res[i].success =>
                    /\ res[i].error # <<>>
                    /\ \E k \in 1..Len(m.failed) : m.failed[k] = res[i]
    ]_vars

\* a result message tells of one action that succeeded and one that failed
C34_Witness ==
  \E c \in Cmds :
    /\ chat[c] # <<>>
    /\ Last(chat[c])[1] = "assistant"
    /\ Last(chat[c])[2] = "result"
    /\ Last(chat[c])[3].completed = 1
    /\ Len(Last(chat[c])[3].failed) = 1

\* ------------------------------------------------------------------------
\* captureScreenshot of command c resumes from a capture that has failed
CaptureFails(c) ==
  /\ pc[c] = "captureScreenshot"
  /\ Resumes(c)
  /\ ~req[c].resp.success

\* C35: a failed capture of the screenshot does not end the command:
\* handleSendCommand goes on to the planning step, the snapshot it passes
\* carries no screenshot and the request to the backend has no image; no
\* message is added to the chat.
C35_CaptureFailureTolerated ==
  [][\A c \in Cmds :
       CaptureFails(c) =>
         /\ pc'[c] = "analyze"
         /\ context'[c] # <<>>
         /\ context'[c][1].screenshot = Undefined
         /\ context'[c][1].elements = context[c][1].elements
         /\ req'[c].type = "AI"
         /\ Len(aiReq'[c]) = Len(aiReq[c]) + 1
         /\ ~Last(aiReq'[c]).image
         /\ chat'[c] = chat[c]
    ]_vars

\* a command has gone from a failed capture on to a plan and executes it
C35_Witness ==
  \E c \in Cmds :
    /\ pc[c] = "executeActions"
    /\ aiReq[c] # <<>>
    /\ ~Last(aiReq[c]).image

\* ------------------------------------------------------------------------
\* the result message of the step says that all actions have completed
\* successfully
ReportsAllOk(c) == Summarizes(c) /\ Last(chat'[c])[3].allOk

\* C36: the result message of a command says 'All actions completed
\* successfully' only if every action of the planned list was attempted
\* and has succeeded, and never when the execute request has failed.
C36_AllOkOnlyIfAllSucceeded ==
  [][\A c \in Cmds :
       ReportsAllOk(c) =>
         /\ req[c].resp.success
         /\ Len(results'[c]) = Len(actions[c])
         /\ \A i \in 1..Len(results'[c]) :
              /\ results'[c][i].success
              /\ results'[c][i].action = actions[c][i]
    ]_vars

\* ------------------------------------------------------------------------
\* the content script of a tab runs the batch of command c, or has run it
Executes(c) == exec[c].pc # "none"

\* C37: the batch of a command is executed in the tab whose page the
\* snapshot of that command shows, also when the user has activated another
\* tab since the snapshot was taken.
C37_SameTabAsSnapshot ==
  \A c \in Cmds :
    (Executes(c) /\ context[c] # <<>>) => exec[c].tab = context[c][1].url

\* ------------------------------------------------------------------------
\* handleSendCommand of command c returns
Finishes(c) == pc[c] # "done" /\ pc'[c] = "done"

\* C38: when every request is answered, every started command finishes,
\* and on whatever path handleSendCommand returns, it leaves the Send
\* button enabled and the status bar hidden.
C38_CommandFinishes ==
  /\ \A c \in Cmds : InFlight(c) ~> pc[c] = "done"
  /\ [][\A c \in Cmds :
          Finishes(c) => ~sendBtnDisabled' /\ statusHidden'
       ]_vars

\* a command has finished after its execute request has failed
C38_Witness ==
  \E c \in Cmds :
    /\ pc[c] = "done"
    /\ Issued(c, "EXECUTE_ACTIONS") = 1
    /\ Errors(chat[c]) = 1
    /\ ~sendBtnDisabled
    /\ statusHidden

\* ------------------------------------------------------------------------
\* C39: an action that yields a failure result leaves the page as it was:
\* no element is clicked, no value is set and no event is dispatched in the
\* step that pushes the result.
C39_FailureLeavesPage ==
  [][\A c \in Cmds :
       (Pushes(c) /\ ~Last(exec'[c].results).success) =>
         /\ dom' = dom
         /\ exec'[c].events = exec[c].events
    ]_vars

\* a fill has failed at an element that is no input and no textarea, after
\* an action that has changed the page
C39_Witness ==
  \E c \in Cmds :
    /\ exec[c].pc = "done"
    /\ Len(exec[c].results) = 2
    /\ Last(exec[c].results).error[1] = "Element is not an input or textarea"
    /\ dom[exec[c].tab] # DemoPage

====
